---------------------------- MODULE Spec2Model ----------------------------
(***************************************************************************)
(* A model of the SQL front end: the Tokenizer (src/src/tokenizer.rs), the *)
(* Pratt expression parser and the recursive-descent statement parser      *)
(* (src/src/parser.rs).                                                    *)
(*                                                                         *)
(* Text is a sequence of one-character strings.  A Rust function that      *)
(* takes `&mut self` and returns a value becomes an operator that takes    *)
(* the object's state and returns a record holding the value and the new   *)
(* state.  Result<T, String> is the record [ok, val]: val is the value     *)
(* when ok, and the error message otherwise.  A message built by format!   *)
(* is the tuple of its fixed text and its arguments.  A u64 is the         *)
(* sequence of its decimal digits without leading zeros.                   *)
(***************************************************************************)
EXTENDS Integers, Sequences, FiniteSets, TLC

VARIABLES
    input,      \* the text handed to Tokenizer::new
    harness,    \* which entry point runs: "expr" (the tests' parse_expression
                \* helper) or "stmt" (build_statement / the tests' parse_sql)
    pc,         \* "start" -> "ready" -> "done"
    parser,     \* the Parser object: its tokenizer and its current_token
    result,     \* the Result the entry point returned
    tokenizer,  \* the Tokenizer object that is iterated on its own
    yielded     \* what the calls of Iterator::next on it returned, in order

vars == <<input, harness, pc, parser, result, tokenizer, yielded>>

---------------------------------------------------------------------------
\* Characters

Digits == {"0", "1", "2", "3", "4", "5", "6", "7", "8", "9"}

LowerLetters ==
    {"a", "b", "c", "d", "e", "f", "g", "h", "i", "j", "k", "l", "m",
     "n", "o", "p", "q", "r", "s", "t", "u", "v", "w", "x", "y", "z"}

UpperLetters ==
    {"A", "B", "C", "D", "E", "F", "G", "H", "I", "J", "K", "L", "M",
     "N", "O", "P", "Q", "R", "S", "T", "U", "V", "W", "X", "Y", "Z"}

\* char::is_whitespace, on the characters the inputs use
Whitespace == {" ", "\t", "\n", "\r"}

\* the characters that start an identifier or keyword: ASCII only
IdentStart == LowerLetters \cup UpperLetters \cup {"_"}

\* the characters outside ASCII that the inputs use and char::is_alphanumeric
\* holds of
UnicodeAlphanumeric == {"é", "É"}

\* c.is_alphanumeric() || c == '_', on the characters the inputs use
IdentPart == IdentStart \cup Digits \cup UnicodeAlphanumeric

Quotes == {"'", "\""}

\* Option<char>::None
NoChar == "None"

\* char::to_uppercase on one character
UpperChar(c) ==
    CASE c = "a" -> "A" [] c = "b" -> "B" [] c = "c" -> "C" [] c = "d" -> "D"
      [] c = "e" -> "E" [] c = "f" -> "F" [] c = "g" -> "G" [] c = "h" -> "H"
      [] c = "i" -> "I" [] c = "j" -> "J" [] c = "k" -> "K" [] c = "l" -> "L"
      [] c = "m" -> "M" [] c = "n" -> "N" [] c = "o" -> "O" [] c = "p" -> "P"
      [] c = "q" -> "Q" [] c = "r" -> "R" [] c = "s" -> "S" [] c = "t" -> "T"
      [] c = "u" -> "U" [] c = "v" -> "V" [] c = "w" -> "W" [] c = "x" -> "X"
      [] c = "y" -> "Y" [] c = "z" -> "Z" [] c = "é" -> "É"
      [] OTHER -> c

\* str::to_uppercase
to_uppercase(s) == [i \in 1..Len(s) |-> UpperChar(s[i])]

---------------------------------------------------------------------------
\* Tokens (src/src/token.rs)

Tok(type) == [type |-> type, val |-> <<>>]
TokKeyword(k) == [type |-> "Keyword", val |-> <<k>>]
TokIdentifier(s) == [type |-> "Identifier", val |-> s]
TokString(s) == [type |-> "String", val |-> s]
TokNumber(n) == [type |-> "Number", val |-> n]
TokInvalid(c) == [type |-> "Invalid", val |-> <<c>>]
Eof == Tok("Eof")

\* Option<Token>::None
NoToken == Tok("None")

\* Result<T, String> together with the state of the object that produced it
Ok(v, s) == [ok |-> TRUE, val |-> v, st |-> s]
Err(e, s) == [ok |-> FALSE, val |-> e, st |-> s]

---------------------------------------------------------------------------
\* Tokenizer (src/src/tokenizer.rs)

\* Tokenizer::new: current_char is the first character, if any
Tokenizer_new(text) == [input |-> text, pos |-> 1, reached_end |-> FALSE]

current_char(tz) ==
    IF tz.pos <= Len(tz.input) THEN tz.input[tz.pos] ELSE NoChar

\* Tokenizer::advance: Chars::next keeps returning None at the end
advance(tz) ==
    [tz EXCEPT !.pos = IF tz.pos <= Len(tz.input) THEN tz.pos + 1 ELSE tz.pos]

RECURSIVE ScanWhile(_, _, _)
\* the while-let loops: the first position from i on whose character is not in S
ScanWhile(text, i, S) ==
    IF i <= Len(text) /\ text[i] \in S THEN ScanWhile(text, i + 1, S) ELSE i

skip_whitespace(tz) ==
    [tz EXCEPT !.pos = ScanWhile(tz.input, tz.pos, Whitespace)]

RECURSIVE StripZeros(_)
StripZeros(ds) ==
    IF Len(ds) > 1 /\ ds[1] = "0" THEN StripZeros(Tail(ds)) ELSE ds

DigitVal(d) ==
    CASE d = "0" -> 0 [] d = "1" -> 1 [] d = "2" -> 2 [] d = "3" -> 3
      [] d = "4" -> 4 [] d = "5" -> 5 [] d = "6" -> 6 [] d = "7" -> 7
      [] d = "8" -> 8 [] d = "9" -> 9

\* u64::MAX = 2^64 - 1, in decimal
U64Max ==
    <<"1", "8", "4", "4", "6", "7", "4", "4", "0", "7",
      "3", "7", "0", "9", "5", "5", "1", "6", "1", "5">>

RECURSIVE DigitsLeq(_, _)
\* a <= b for two digit sequences of the same length
DigitsLeq(a, b) ==
    IF a = <<>> THEN TRUE
    ELSE IF DigitVal(a[1]) < DigitVal(b[1]) THEN TRUE
    ELSE IF DigitVal(a[1]) > DigitVal(b[1]) THEN FALSE
    ELSE DigitsLeq(Tail(a), Tail(b))

\* whether the digit run is the decimal form of a u64
FitsU64(ds) ==
    LET n == StripZeros(ds) IN
    \/ Len(n) < Len(U64Max)
    \/ Len(n) = Len(U64Max) /\ DigitsLeq(n, U64Max)

\* a parse that goes by the number of digits alone
parse_u64_by_length(ds) ==
    IF Len(StripZeros(ds)) <= Len(U64Max)
    THEN [ok |-> TRUE, val |-> StripZeros(ds)]
    ELSE [ok |-> FALSE, val |-> <<>>]

\* str::parse::<u64> on a non-empty digit run
parse_u64(ds) ==
    IF FitsU64(ds) THEN [ok |-> TRUE, val |-> StripZeros(ds)]
    ELSE [ok |-> FALSE, val |-> <<>>]

read_number(tz) ==
    LET end == ScanWhile(tz.input, tz.pos, Digits)
        number == SubSeq(tz.input, tz.pos, end - 1)
        parsed == parse_u64(number)
    IN  [val |-> IF parsed.ok THEN TokNumber(parsed.val) ELSE TokInvalid("0"),
         st |-> [tz EXCEPT !.pos = end]]

\* the keyword table of read_identifier_or_keyword: upper-cased text, Keyword
KeywordTable ==
    << <<<<"S","E","L","E","C","T">>, "Select">>,
       <<<<"C","R","E","A","T","E">>, "Create">>,
       <<<<"T","A","B","L","E">>, "Table">>,
       <<<<"W","H","E","R","E">>, "Where">>,
       <<<<"O","R","D","E","R">>, "Order">>,
       <<<<"B","Y">>, "By">>,
       <<<<"A","S","C">>, "Asc">>,
       <<<<"D","E","S","C">>, "Desc">>,
       <<<<"F","R","O","M">>, "From">>,
       <<<<"A","N","D">>, "And">>,
       <<<<"O","R">>, "Or">>,
       <<<<"N","O","T">>, "Not">>,
       <<<<"T","R","U","E">>, "True">>,
       <<<<"F","A","L","S","E">>, "False">>,
       <<<<"P","R","I","M","A","R","Y">>, "Primary">>,
       <<<<"K","E","Y">>, "Key">>,
       <<<<"C","H","E","C","K">>, "Check">>,
       <<<<"I","N","T">>, "Int">>,
       <<<<"B","O","O","L">>, "Bool">>,
       <<<<"V","A","R","C","H","A","R">>, "Varchar">>,
       <<<<"N","U","L","L">>, "Null">>,
       <<<<"N","O","T"," ","N","U","L","L">>, "Null">> >>

\* a read_identifier_or_keyword that matches the text as it is written
read_identifier_or_keyword_exact(tz) ==
    LET end == ScanWhile(tz.input, tz.pos, IdentPart)
        identifier == SubSeq(tz.input, tz.pos, end - 1)
        hits == {i \in 1..Len(KeywordTable) : KeywordTable[i][1] = identifier}
        first == CHOOSE i \in hits : \A j \in hits : i <= j
    IN  [val |-> IF hits = {} THEN TokIdentifier(identifier)
                 ELSE TokKeyword(KeywordTable[first][2]),
         st |-> [tz EXCEPT !.pos = end]]

read_identifier_or_keyword(tz) ==
    LET end == ScanWhile(tz.input, tz.pos, IdentPart)
        identifier == SubSeq(tz.input, tz.pos, end - 1)
        upper == to_uppercase(identifier)
        hits == {i \in 1..Len(KeywordTable) : KeywordTable[i][1] = upper}
        \* a match takes the first arm that matches
        first == CHOOSE i \in hits : \A j \in hits : i <= j
    IN  [val |-> IF hits = {} THEN TokIdentifier(identifier)
                 ELSE TokKeyword(KeywordTable[first][2]),
         st |-> [tz EXCEPT !.pos = end]]

RECURSIVE ScanToQuote(_, _)
\* the loop of read_string: the first position from i on that holds a quote
\* character of either kind, or Len(text) + 1 when there is none
ScanToQuote(text, i) ==
    IF i <= Len(text) /\ text[i] \notin Quotes THEN ScanToQuote(text, i + 1) ELSE i

\* a read_string that leaves the mismatched quote unread
read_string_quote_kept(tz, quote_char) ==
    LET start == tz.pos + 1
        end == ScanToQuote(tz.input, start)
    IN  IF end > Len(tz.input)
        THEN Err(<<"Unterminated string starting with ", quote_char>>,
                 [tz EXCEPT !.pos = end])
        ELSE IF tz.input[end] # quote_char
        THEN Err(<<"Mismatched quotes: string started with ", quote_char,
                   " but found ", tz.input[end]>>,
                 [tz EXCEPT !.pos = end])
        ELSE Ok(TokString(SubSeq(tz.input, start, end - 1)),
                [tz EXCEPT !.pos = end + 1])

RECURSIVE ScanToQuoteEscaped(_, _)
\* a scan in which a backslash keeps the character behind it from closing
ScanToQuoteEscaped(text, i) ==
    IF i > Len(text) THEN i
    ELSE IF text[i] = "\\" THEN ScanToQuoteEscaped(text, i + 2)
    ELSE IF text[i] \notin Quotes THEN ScanToQuoteEscaped(text, i + 1)
    ELSE i

\* a read_string with backslash escapes
read_string_escaped(tz, quote_char) ==
    LET start == tz.pos + 1
        scanned == ScanToQuoteEscaped(tz.input, start)
        end == IF scanned > Len(tz.input) THEN Len(tz.input) + 1 ELSE scanned
    IN  IF end > Len(tz.input)
        THEN Err(<<"Unterminated string starting with ", quote_char>>,
                 [tz EXCEPT !.pos = end])
        ELSE IF tz.input[end] # quote_char
        THEN Err(<<"Mismatched quotes: string started with ", quote_char,
                   " but found ", tz.input[end]>>,
                 [tz EXCEPT !.pos = end + 1])
        ELSE Ok(TokString(SubSeq(tz.input, start, end - 1)),
                [tz EXCEPT !.pos = end + 1])

\* a read_string that takes a quote of either kind for the closing one
read_string_any_quote(tz, quote_char) ==
    LET start == tz.pos + 1
        end == ScanToQuote(tz.input, start)
    IN  IF end > Len(tz.input)
        THEN Err(<<"Unterminated string starting with ", quote_char>>,
                 [tz EXCEPT !.pos = end])
        ELSE Ok(TokString(SubSeq(tz.input, start, end - 1)),
                [tz EXCEPT !.pos = end + 1])

read_string(tz, quote_char) ==
    LET start == tz.pos + 1   \* skip the opening quote
        end == ScanToQuote(tz.input, start)
    IN  IF end > Len(tz.input)
        THEN Err(<<"Unterminated string starting with ", quote_char>>,
                 [tz EXCEPT !.pos = end])
        ELSE IF tz.input[end] # quote_char
        THEN \* advance past the mismatched quote
             Err(<<"Mismatched quotes: string started with ", quote_char,
                   " but found ", tz.input[end]>>,
                 [tz EXCEPT !.pos = end + 1])
        ELSE Ok(TokString(SubSeq(tz.input, start, end - 1)),
                [tz EXCEPT !.pos = end + 1])

\* a next_token whose last arm forgets the character
SingleCharToken_placeholder(c) ==
    CASE c = "(" -> Tok("LeftParentheses")
      [] c = ")" -> Tok("RightParentheses")
      [] c = "," -> Tok("Comma")
      [] c = ";" -> Tok("Semicolon")
      [] c = "=" -> Tok("Equal")
      [] c = "*" -> Tok("Star")
      [] c = "/" -> Tok("Divide")
      [] c = "+" -> Tok("Plus")
      [] c = "-" -> Tok("Minus")
      [] OTHER -> TokInvalid("0")

\* the arms of next_token that consume one character and return a fixed token
SingleCharToken(c) ==
    CASE c = "(" -> Tok("LeftParentheses")
      [] c = ")" -> Tok("RightParentheses")
      [] c = "," -> Tok("Comma")
      [] c = ";" -> Tok("Semicolon")
      [] c = "=" -> Tok("Equal")
      [] c = "*" -> Tok("Star")
      [] c = "/" -> Tok("Divide")
      [] c = "+" -> Tok("Plus")
      [] c = "-" -> Tok("Minus")
      [] OTHER -> TokInvalid(c)

\* arms for '>', '<' and '!' that take the next character in any case
TwoCharToken_greedy(tz, c) ==
    LET a == advance(tz) IN
    IF current_char(a) = "="
    THEN Ok(CASE c = ">" -> Tok("GreaterThanOrEqual")
              [] c = "<" -> Tok("LessThanOrEqual")
              [] c = "!" -> Tok("NotEqual"),
            advance(a))
    ELSE Ok(CASE c = ">" -> Tok("GreaterThan")
              [] c = "<" -> Tok("LessThan")
              [] c = "!" -> TokInvalid("!"),
            advance(a))

\* the arms of next_token for '>', '<' and '!': one character of lookahead
TwoCharToken(tz, c) ==
    LET a == advance(tz) IN
    IF current_char(a) = "="
    THEN Ok(CASE c = ">" -> Tok("GreaterThanOrEqual")
              [] c = "<" -> Tok("LessThanOrEqual")
              [] c = "!" -> Tok("NotEqual"),
            advance(a))
    ELSE Ok(CASE c = ">" -> Tok("GreaterThan")
              [] c = "<" -> Tok("LessThan")
              [] c = "!" -> TokInvalid("!"),
            a)

next_token(tz0) ==
    LET tz == skip_whitespace(tz0)
        current == current_char(tz)
    IN  IF current = NoChar THEN Ok(Eof, tz)
        ELSE IF current \in Digits
        THEN LET r == read_number(tz) IN Ok(r.val, r.st)
        ELSE IF current \in IdentStart
        THEN LET r == read_identifier_or_keyword(tz) IN Ok(r.val, r.st)
        ELSE IF current \in Quotes THEN read_string(tz, current)
        ELSE IF current \in {">", "<", "!"} THEN TwoCharToken(tz, current)
        ELSE Ok(SingleCharToken(current), advance(tz))

\* an Iterator::next that does not record the end
iterator_item_no_flag(r) ==
    [some |-> TRUE, ok |-> r.ok, val |-> r.val, st |-> r.st]

\* an Iterator::next that ends the tokens without the end-marker
iterator_item_end_is_none(r) ==
    IF r.ok /\ r.val = Eof
    THEN [some |-> FALSE, ok |-> TRUE, val |-> NoToken,
          st |-> [r.st EXCEPT !.reached_end = TRUE]]
    ELSE [some |-> TRUE, ok |-> r.ok, val |-> r.val, st |-> r.st]

\* the match on next_token() in Iterator::next
iterator_item(r) ==
    IF r.ok /\ r.val = Eof
    THEN [some |-> TRUE, ok |-> TRUE, val |-> Eof,
          st |-> [r.st EXCEPT !.reached_end = TRUE]]
    ELSE [some |-> TRUE, ok |-> r.ok, val |-> r.val, st |-> r.st]

\* Iterator::next for Tokenizer: some = FALSE is None
Tokenizer_next(tz) ==
    IF tz.reached_end
    THEN [some |-> FALSE, ok |-> TRUE, val |-> NoToken, st |-> tz]
    ELSE iterator_item(next_token(tz))

---------------------------------------------------------------------------
\* Expressions and statements (src/src/statement.rs)

BinaryOperation(left, operator, right) ==
    <<"BinaryOperation", left, operator, right>>
UnaryOperation(operand, operator) == <<"UnaryOperation", operand, operator>>
ExprNumber(n) == <<"Number", n>>
ExprBool(b) == <<"Bool", b>>
ExprIdentifier(s) == <<"Identifier", s>>
ExprString(s) == <<"String", s>>
Wildcard == <<"Wildcard">>

\* Option<Expression>
None == <<"None">>
Some(e) == <<"Some", e>>

Select(columns, from, where, orderby) ==
    [kind |-> "Select", columns |-> columns, from |-> from,
     where |-> where, orderby |-> orderby]
CreateTable(table_name, column_list) ==
    [kind |-> "CreateTable", table_name |-> table_name,
     column_list |-> column_list]
TableColumn(column_name, column_type, constraints) ==
    [column_name |-> column_name, column_type |-> column_type,
     constraints |-> constraints]

DBInt == <<"Int">>
DBBool == <<"Bool">>
DBVarchar(n) == <<"Varchar", n>>

NotNull == <<"NotNull">>
PrimaryKey == <<"PrimaryKey">>
Check(e) == <<"Check", e>>

---------------------------------------------------------------------------
\* Parser (src/src/parser.rs)
\*
\* A function that runs several steps in a row, each able to return early
\* with `?` or `return Err`, is written as one operator per step: f(p) is the
\* first step and an operator named f_<step> is the rest of f from that step
\* on, given the values that f has computed so far.  They are defined last
\* step first.

\* the match on tokenizer.next() in Parser::new and advance_token; on a
\* tokenizer error advance_token leaves current_token as it was
\* an advance_token that takes a lexical error for the end of the tokens
set_current_token_lenient(current, r) ==
    Ok(<<>>, [tokenizer |-> r.st,
              current_token |-> IF r.some /\ r.ok THEN r.val ELSE NoToken])

set_current_token(current, r) ==
    IF r.some /\ ~r.ok
    THEN Err(r.val, [tokenizer |-> r.st, current_token |-> current])
    ELSE Ok(<<>>, [tokenizer |-> r.st,
                   current_token |-> IF r.some THEN r.val ELSE NoToken])

\* Parser::new: the first token is read at once
Parser_new(tz) == set_current_token(NoToken, Tokenizer_next(tz))

advance_token(p) == set_current_token(p.current_token, Tokenizer_next(p.tokenizer))

ComparisonTokens ==
    {Tok("Equal"), Tok("NotEqual"), Tok("GreaterThan"),
     Tok("GreaterThanOrEqual"), Tok("LessThan"), Tok("LessThanOrEqual")}

\* a precedence table that gives '*' and '/' the rank of '+' and '-'
token_precedence_flat(token) ==
    IF token \in {TokKeyword("Asc"), TokKeyword("Desc")} THEN 1
    ELSE IF token = TokKeyword("Or") THEN 2
    ELSE IF token = TokKeyword("And") THEN 3
    ELSE IF token \in ComparisonTokens THEN 4
    ELSE IF token \in {Tok("Plus"), Tok("Minus"), Tok("Star"), Tok("Divide")}
    THEN 5
    ELSE 0

\* a precedence table that ranks ASC and DESC above every binary operator
token_precedence_postfix_high(token) ==
    IF token \in {TokKeyword("Asc"), TokKeyword("Desc")} THEN 7
    ELSE IF token = TokKeyword("Or") THEN 2
    ELSE IF token = TokKeyword("And") THEN 3
    ELSE IF token \in ComparisonTokens THEN 4
    ELSE IF token \in {Tok("Plus"), Tok("Minus")} THEN 5
    ELSE IF token \in {Tok("Star"), Tok("Divide")} THEN 6
    ELSE 0

\* the precedence of a token; get_precedence applies it to current_token
token_precedence(token) ==
    IF token \in {TokKeyword("Asc"), TokKeyword("Desc")} THEN 1
    ELSE IF token = TokKeyword("Or") THEN 2
    ELSE IF token = TokKeyword("And") THEN 3
    ELSE IF token \in ComparisonTokens THEN 4
    ELSE IF token \in {Tok("Plus"), Tok("Minus")} THEN 5
    ELSE IF token \in {Tok("Star"), Tok("Divide")} THEN 6
    ELSE 0

get_precedence(p) == token_precedence(p.current_token)

\* the tokens whose arm of parse_infix builds a BinaryOperation
BinaryTokens ==
    ComparisonTokens \cup
    {Tok("Plus"), Tok("Minus"), Tok("Star"), Tok("Divide"),
     TokKeyword("And"), TokKeyword("Or")}

\* the BinaryOperator that the token's arm of parse_infix builds
infix_operator(token) ==
    CASE token = Tok("Plus") -> "Plus"
      [] token = Tok("Minus") -> "Minus"
      [] token = Tok("Star") -> "Multiply"
      [] token = Tok("Divide") -> "Divide"
      [] token = Tok("Equal") -> "Equal"
      [] token = Tok("NotEqual") -> "NotEqual"
      [] token = Tok("GreaterThan") -> "GreaterThan"
      [] token = Tok("GreaterThanOrEqual") -> "GreaterThanOrEqual"
      [] token = Tok("LessThan") -> "LessThan"
      [] token = Tok("LessThanOrEqual") -> "LessThanOrEqual"
      [] token = TokKeyword("And") -> "And"
      [] token = TokKeyword("Or") -> "Or"

\* the right-hand operand parsed one rank lower: right-associative
infix_right_precedence_lower(token) ==
    CASE token \in {Tok("Plus"), Tok("Minus")} -> 4
      [] token \in {Tok("Star"), Tok("Divide")} -> 5
      [] token \in ComparisonTokens -> 3
      [] token = TokKeyword("And") -> 2
      [] token = TokKeyword("Or") -> 1

\* the minimum precedence that the token's arm of parse_infix passes to
\* parse_expression for the right-hand operand
infix_right_precedence(token) ==
    CASE token \in {Tok("Plus"), Tok("Minus")} -> 5
      [] token \in {Tok("Star"), Tok("Divide")} -> 6
      [] token \in ComparisonTokens -> 4
      [] token = TokKeyword("And") -> 3
      [] token = TokKeyword("Or") -> 2

\* the tokens whose arm of parse_prefix builds a UnaryOperation
PrefixTokens == {TokKeyword("Not"), Tok("Plus"), Tok("Minus")}

\* a prefix operator whose operand is parsed with minimum precedence 0
prefix_operand_precedence_loose(token) ==
    CASE token = TokKeyword("Not") -> 0
      [] token = Tok("Plus") -> 0
      [] token = Tok("Minus") -> 0

\* the minimum precedence that the NOT, '+' and '-' arms of parse_prefix
\* pass to parse_expression for the operand
prefix_operand_precedence(token) ==
    CASE token = TokKeyword("Not") -> 6
      [] token = Tok("Plus") -> 6
      [] token = Tok("Minus") -> 6

\* the UnaryOperator that the token's arm of parse_prefix builds
prefix_operator(token) ==
    CASE token = TokKeyword("Not") -> "Not"
      [] token = Tok("Plus") -> "Plus"
      [] token = Tok("Minus") -> "Minus"

\* the UnaryOperator that the ASC and DESC arms of parse_infix build
postfix_operator(token) ==
    CASE token = TokKeyword("Asc") -> "Asc"
      [] token = TokKeyword("Desc") -> "Desc"

\* a sub-expression after '(' parsed with the minimum precedence of '*'
group_precedence_tight == token_precedence(Tok("Star"))

\* the minimum precedence of the sub-expression after '('
group_precedence == 0

\* the value of a literal or identifier token as an Expression
primary_expression(token) ==
    CASE token.type = "Number" -> ExprNumber(token.val)
      [] token.type = "String" -> ExprString(token.val)
      [] token.type = "Identifier" -> ExprIdentifier(token.val)
      [] token = TokKeyword("True") -> ExprBool(TRUE)
      [] token = TokKeyword("False") -> ExprBool(FALSE)

IsPrimary(token) ==
    \/ token.type \in {"Number", "String", "Identifier"}
    \/ token \in {TokKeyword("True"), TokKeyword("False")}

\* `if let Some(token) = current_token { advance_token()? } else { return
\* Err(message) }`: the token is required and consumed
expect(p, token, message) ==
    IF p.current_token = token THEN advance_token(p) ELSE Err(<<message>>, p)

\* r?, then the value v with the parser state r leaves
ok_then(r, v) == IF r.ok THEN Ok(v, r.st) ELSE r

RECURSIVE parse_expression(_, _)
RECURSIVE parse_prefix(_)
RECURSIVE parse_infix(_, _)
RECURSIVE infix_loop(_, _, _)

\* the NOT, '+' and '-' arms of parse_prefix, once the operand is parsed
parse_prefix_unary(token, operand) ==
    IF operand.ok
    THEN Ok(UnaryOperation(operand.val, prefix_operator(token)), operand.st)
    ELSE operand

\* a '(' arm of parse_prefix that takes the ')' when there is one
parse_prefix_group_unclosed(expr) ==
    IF ~expr.ok THEN expr
    ELSE IF expr.st.current_token = Tok("RightParentheses")
    THEN ok_then(advance_token(expr.st), expr.val)
    ELSE Ok(expr.val, expr.st)

\* the '(' arm of parse_prefix, once the sub-expression is parsed
parse_prefix_group(expr) ==
    IF ~expr.ok THEN expr
    ELSE ok_then(expect(expr.st, Tok("RightParentheses"),
                        "Expected closing parenthesis"),
                 expr.val)

\* arms of parse_prefix that leave a primary token where it is
parse_prefix_arm_primary_kept(p, token, a) ==
    IF IsPrimary(token) THEN Ok(primary_expression(token), p)
    ELSE IF token \in PrefixTokens
    THEN IF ~a.ok THEN a
         ELSE parse_prefix_unary(token,
                  parse_expression(a.st, prefix_operand_precedence(token)))
    ELSE IF token = Tok("LeftParentheses")
    THEN IF ~a.ok THEN a
         ELSE parse_prefix_group(parse_expression(a.st, group_precedence))
    ELSE Err(<<"Unexpected token in prefix position: ", token>>, p)

\* the arms of parse_prefix, a being what advance_token returns
parse_prefix_arm(p, token, a) ==
    IF IsPrimary(token) THEN ok_then(a, primary_expression(token))
    ELSE IF token \in PrefixTokens
    THEN IF ~a.ok THEN a
         ELSE parse_prefix_unary(token,
                  parse_expression(a.st, prefix_operand_precedence(token)))
    ELSE IF token = Tok("LeftParentheses")
    THEN IF ~a.ok THEN a
         ELSE parse_prefix_group(parse_expression(a.st, group_precedence))
    ELSE Err(<<"Unexpected token in prefix position: ", token>>, p)

parse_prefix(p) ==
    IF p.current_token = NoToken THEN Err(<<"Unexpected end of input">>, p)
    ELSE parse_prefix_arm(p, p.current_token, advance_token(p))

\* binary arms of parse_infix that report the operator of a failed operand
parse_infix_binary_operator_named(left, token, right) ==
    IF right.ok
    THEN Ok(BinaryOperation(left, infix_operator(token), right.val), right.st)
    ELSE Err(<<"Unexpected token in prefix position: ", token>>, right.st)

\* the binary arms of parse_infix, once the right-hand operand is parsed
parse_infix_binary(left, token, right) ==
    IF right.ok
    THEN Ok(BinaryOperation(left, infix_operator(token), right.val), right.st)
    ELSE right

\* the arms of parse_infix, a being what advance_token returns
parse_infix_arm(p, left, token, a) ==
    IF token \in BinaryTokens
    THEN IF ~a.ok THEN a
         ELSE parse_infix_binary(left, token,
                  parse_expression(a.st, infix_right_precedence(token)))
    ELSE IF token \in {TokKeyword("Asc"), TokKeyword("Desc")}
    THEN ok_then(a, UnaryOperation(left, postfix_operator(token)))
    ELSE Err(<<"Unexpected token in infix position: ", token>>, p)

parse_infix(p, left) ==
    IF p.current_token = NoToken THEN Err(<<"Unexpected end of input">>, p)
    ELSE parse_infix_arm(p, left, p.current_token, advance_token(p))

\* one turn of the while loop of parse_expression, r being what parse_infix
\* returns
infix_loop_next(r, precedence) ==
    IF r.ok THEN infix_loop(r.st, r.val, precedence) ELSE r

\* the while loop of parse_expression
infix_loop(p, left, precedence) ==
    IF precedence < get_precedence(p)
    THEN infix_loop_next(parse_infix(p, left), precedence)
    ELSE Ok(left, p)

\* parse_expression after parse_prefix()?
parse_expression_loop(left, precedence) ==
    IF left.ok THEN infix_loop(left.st, left.val, precedence) ELSE left

parse_expression(p, precedence) ==
    parse_expression_loop(parse_prefix(p), precedence)

RECURSIVE expression_list(_, _)

\* the body of the comma loops, once the next expression is parsed
expression_list_push(acc, expr) ==
    IF expr.ok THEN expression_list(expr.st, Append(acc, expr.val)) ELSE expr

\* the body of the comma loops, a being what advance_token returns
expression_list_item(acc, a) ==
    IF a.ok THEN expression_list_push(acc, parse_expression(a.st, 0)) ELSE a

\* the `while let Some(Token::Comma)` loops of parse_select_statement: after
\* each expression pushed on acc, a comma asks for one more
expression_list(p, acc) ==
    IF p.current_token = Tok("Comma")
    THEN expression_list_item(acc, advance_token(p))
    ELSE Ok(acc, p)

\* the first expression of a list, then the comma loop
expression_list_first(first) ==
    IF first.ok THEN expression_list(first.st, <<first.val>>) ELSE first

\* a column list without the special case for '*'
select_columns_no_wildcard(p) == expression_list_first(parse_expression(p, 0))

\* the column list of parse_select_statement, SELECT already consumed
select_columns(p) ==
    IF p.current_token = Tok("Star")
    THEN ok_then(advance_token(p), <<Wildcard>>)
    ELSE expression_list_first(parse_expression(p, 0))

\* Some(self.parse_expression(0)?)
some_expression(expr) == IF expr.ok THEN Ok(Some(expr.val), expr.st) ELSE expr

\* WHERE consumed: the expression
select_where_expression(a) ==
    IF a.ok THEN some_expression(parse_expression(a.st, 0)) ELSE a

\* the optional WHERE clause of parse_select_statement
select_where(p) ==
    IF p.current_token = TokKeyword("Where")
    THEN select_where_expression(advance_token(p))
    ELSE Ok(None, p)

\* an ORDER BY that is dropped when its list does not parse
select_orderby_list_dropped(b) ==
    IF ~b.ok THEN b
    ELSE IF expression_list_first(parse_expression(b.st, 0)).ok
    THEN expression_list_first(parse_expression(b.st, 0))
    ELSE Ok(<<>>, b.st)

\* BY consumed: the first expression and the comma loop
select_orderby_list(b) ==
    IF b.ok THEN expression_list_first(parse_expression(b.st, 0)) ELSE b

\* ORDER consumed: BY is consumed if it is there
select_orderby_by_optional(a) ==
    IF ~a.ok THEN a
    ELSE IF a.st.current_token = TokKeyword("By")
    THEN select_orderby_list(advance_token(a.st))
    ELSE select_orderby_list(a)

\* ORDER consumed: BY is required
select_orderby_by(a) ==
    IF a.ok
    THEN select_orderby_list(expect(a.st, TokKeyword("By"),
                                    "Expected BY after ORDER"))
    ELSE a

\* the optional ORDER BY clause of parse_select_statement
select_orderby(p) ==
    IF p.current_token = TokKeyword("Order")
    THEN select_orderby_by(advance_token(p))
    ELSE Ok(<<>>, p)

\* a SELECT whose semicolon may be left out
select_end_lenient(columns, from, where, orderby) ==
    IF ~orderby.ok THEN orderby
    ELSE IF orderby.st.current_token = Tok("Semicolon")
    THEN ok_then(advance_token(orderby.st),
                 Select(columns, from, where, orderby.val))
    ELSE Ok(Select(columns, from, where, orderby.val), orderby.st)

\* the semicolon is required and consumed, then Ok(Statement::Select {..})
select_end(columns, from, where, orderby) ==
    IF orderby.ok
    THEN ok_then(expect(orderby.st, Tok("Semicolon"),
                        "Expected semicolon at the end of the SELECT statement"),
                 Select(columns, from, where, orderby.val))
    ELSE orderby

select_after_where(columns, from, where) ==
    IF where.ok
    THEN select_end(columns, from, where.val, select_orderby(where.st))
    ELSE where

\* c is what advance_token returns for the table name
select_after_from(columns, from, c) ==
    IF c.ok THEN select_after_where(columns, from, select_where(c.st)) ELSE c

\* b is what consuming FROM returns: the table name is required
select_table_name(columns, b) ==
    IF ~b.ok THEN b
    ELSE IF b.st.current_token.type = "Identifier"
    THEN select_after_from(columns, b.st.current_token.val,
                           advance_token(b.st))
    ELSE Err(<<"Expected table name after FROM">>, b.st)

\* a SELECT whose FROM clause may be left out
select_from_optional(columns) ==
    IF ~columns.ok THEN columns
    ELSE IF columns.st.current_token = TokKeyword("From")
    THEN select_table_name(columns.val, advance_token(columns.st))
    ELSE select_after_where(columns.val, <<>>, select_where(columns.st))

\* the column list is parsed: FROM is required
select_from(columns) ==
    IF columns.ok
    THEN select_table_name(columns.val,
             expect(columns.st, TokKeyword("From"),
                    "Expected FROM clause in SELECT statement"))
    ELSE columns

\* a is what consuming SELECT returns
select_after_select(a) == IF a.ok THEN select_from(select_columns(a.st)) ELSE a

parse_select_statement(p) == select_after_select(advance_token(p))

\* the VARCHAR arm of parse_db_type: ')' consumed
varchar_end(length, d) == ok_then(d, DBVarchar(length))

\* the length consumed: ')' is required
varchar_close(length, c) ==
    IF c.ok
    THEN varchar_end(length, expect(c.st, Tok("RightParentheses"),
                                    "Expected ) after VARCHAR length"))
    ELSE c

\* '(' consumed: a number is required; `as usize` keeps a u64 on a 64-bit
\* target
varchar_length(b) ==
    IF ~b.ok THEN b
    ELSE IF b.st.current_token.type = "Number"
    THEN varchar_close(b.st.current_token.val, advance_token(b.st))
    ELSE Err(<<"Expected number for VARCHAR length">>, b.st)

\* VARCHAR consumed: '(' is required
varchar_open(a) ==
    IF a.ok
    THEN varchar_length(expect(a.st, Tok("LeftParentheses"),
                               "Expected ( after VARCHAR"))
    ELSE a

\* a parse_db_type that takes INT for granted when no type is written
parse_db_type_int_default(p) ==
    IF p.current_token = TokKeyword("Int")
    THEN ok_then(advance_token(p), DBInt)
    ELSE IF p.current_token = TokKeyword("Bool")
    THEN ok_then(advance_token(p), DBBool)
    ELSE IF p.current_token = TokKeyword("Varchar")
    THEN varchar_open(advance_token(p))
    ELSE Ok(DBInt, p)

parse_db_type(p) ==
    IF p.current_token = NoToken
    THEN Err(<<"Unexpected end of input in type definition">>, p)
    ELSE IF p.current_token = TokKeyword("Int")
    THEN ok_then(advance_token(p), DBInt)
    ELSE IF p.current_token = TokKeyword("Bool")
    THEN ok_then(advance_token(p), DBBool)
    ELSE IF p.current_token = TokKeyword("Varchar")
    THEN varchar_open(advance_token(p))
    ELSE Err(<<"Expected data type, got ", p.current_token>>, p)

\* the CHECK arm of the constraint loop: the expression is parsed and ')' is
\* required
check_close(expr) ==
    IF expr.ok
    THEN ok_then(expect(expr.st, Tok("RightParentheses"),
                        "Expected ) after CHECK expression"),
                 Check(expr.val))
    ELSE expr

\* '(' consumed: the expression
check_expression(b) ==
    IF b.ok THEN check_close(parse_expression(b.st, 0)) ELSE b

\* CHECK consumed: '(' is required
check_open(a) ==
    IF a.ok
    THEN check_expression(expect(a.st, Tok("LeftParentheses"),
                                 "Expected ( after CHECK"))
    ELSE a

\* the PRIMARY and NOT arms of the constraint loop: the first keyword is
\* consumed, the second is required and consumed
keyword_constraint(a, second, constraint, message) ==
    IF a.ok
    THEN ok_then(expect(a.st, TokKeyword(second), message), constraint)
    ELSE a

\* one constraint, a being what advance_token returns for its first token
parse_constraint(token, a) ==
    IF token = TokKeyword("Primary")
    THEN keyword_constraint(a, "Key", PrimaryKey, "Expected KEY after PRIMARY")
    ELSE IF token = TokKeyword("Not")
    THEN keyword_constraint(a, "Null", NotNull, "Expected NULL after NOT")
    ELSE check_open(a)

RECURSIVE constraint_loop(_, _)

\* a loop that puts each constraint in front of the earlier ones
constraint_loop_push_front(constraints, one) ==
    IF one.ok
    THEN constraint_loop(one.st, <<one.val>> \o constraints)
    ELSE one

\* one turn of the loop: the constraint is pushed
constraint_loop_push(constraints, one) ==
    IF one.ok
    THEN constraint_loop(one.st, Append(constraints, one.val))
    ELSE one

\* the `loop` of parse_column_definition
constraint_loop(p, constraints) ==
    IF p.current_token = NoToken
    THEN Err(<<"Unexpected end of input in column definition">>, p)
    ELSE IF p.current_token \in {TokKeyword("Primary"), TokKeyword("Not"),
                                 TokKeyword("Check")}
    THEN constraint_loop_push(constraints,
             parse_constraint(p.current_token, advance_token(p)))
    ELSE IF p.current_token \in {Tok("Comma"), Tok("RightParentheses")}
    THEN Ok(constraints, p)
    ELSE Err(<<"Unexpected token in column definition: ", p.current_token>>, p)

\* Ok(TableColumn {..})
column_end(column_name, column_type, constraints) ==
    ok_then(constraints,
            TableColumn(column_name, column_type, constraints.val))

\* the type is parsed: the constraints
column_constraints(column_name, column_type) ==
    IF column_type.ok
    THEN column_end(column_name, column_type.val,
                    constraint_loop(column_type.st, <<>>))
    ELSE column_type

\* a is what advance_token returns for the column name
column_type_of(column_name, a) ==
    IF a.ok THEN column_constraints(column_name, parse_db_type(a.st)) ELSE a

parse_column_definition(p) ==
    IF p.current_token.type = "Identifier"
    THEN column_type_of(p.current_token.val, advance_token(p))
    ELSE Err(<<"Expected column name">>, p)

RECURSIVE column_list_loop(_, _)

\* the body of the comma loop, once the column definition is parsed
column_list_push(column_list, col) ==
    IF col.ok
    THEN column_list_loop(col.st, Append(column_list, col.val))
    ELSE col

\* the body of the comma loop, a being what advance_token returns
column_list_item(column_list, a) ==
    IF a.ok
    THEN column_list_push(column_list, parse_column_definition(a.st))
    ELSE a

\* the `while let Some(Token::Comma)` loop of parse_create_table_statement
column_list_loop(p, column_list) ==
    IF p.current_token = Tok("Comma")
    THEN column_list_item(column_list, advance_token(p))
    ELSE Ok(column_list, p)

\* ')' consumed: the semicolon is required and consumed, then
\* Ok(Statement::CreateTable {..})
create_end(table_name, column_list, e) ==
    IF e.ok
    THEN ok_then(expect(e.st, Tok("Semicolon"),
             "Expected semicolon at the end of the CREATE TABLE statement"),
                 CreateTable(table_name, column_list))
    ELSE e

\* the column definitions are parsed: ')' is required
create_close(table_name, column_list) ==
    IF column_list.ok
    THEN create_end(table_name, column_list.val,
                    expect(column_list.st, Tok("RightParentheses"),
                           "Expected ) after column definitions"))
    ELSE column_list

\* the first column definition, then the comma loop
create_columns(table_name, first) ==
    IF first.ok
    THEN create_close(table_name, column_list_loop(first.st, <<first.val>>))
    ELSE first

\* d is what consuming '(' returns
create_first_column(table_name, d) ==
    IF d.ok THEN create_columns(table_name, parse_column_definition(d.st))
    ELSE d

\* c is what advance_token returns for the table name: '(' is required
create_open(table_name, c) ==
    IF c.ok
    THEN create_first_column(table_name,
             expect(c.st, Tok("LeftParentheses"), "Expected ( after table name"))
    ELSE c

\* b is what consuming TABLE returns: the table name is required
create_table_name(b) ==
    IF ~b.ok THEN b
    ELSE IF b.st.current_token.type = "Identifier"
    THEN create_open(b.st.current_token.val, advance_token(b.st))
    ELSE Err(<<"Expected table name after CREATE TABLE">>, b.st)

\* a is what consuming CREATE returns: TABLE is required
create_table(a) ==
    IF a.ok
    THEN create_table_name(expect(a.st, TokKeyword("Table"),
                                  "Expected TABLE after CREATE"))
    ELSE a

parse_create_table_statement(p) == create_table(advance_token(p))

\* a parse_statement that takes the first token before it looks at it
parse_statement_consuming(p) ==
    IF p.current_token = NoToken THEN Err(<<"Empty input">>, p)
    ELSE IF p.current_token = TokKeyword("Select")
    THEN parse_select_statement(p)
    ELSE IF p.current_token = TokKeyword("Create")
    THEN parse_create_table_statement(p)
    ELSE Err(<<"Expected SELECT or CREATE, got ", p.current_token>>,
             advance_token(p).st)

parse_statement(p) ==
    IF p.current_token = NoToken THEN Err(<<"Empty input">>, p)
    ELSE IF p.current_token = TokKeyword("Select")
    THEN parse_select_statement(p)
    ELSE IF p.current_token = TokKeyword("Create")
    THEN parse_create_table_statement(p)
    ELSE Err(<<"Expected SELECT or CREATE, got ", p.current_token>>, p)

---------------------------------------------------------------------------
\* The inputs: texts built from words separated by one space

MaxOps == 2          \* binary operators in a generated operand chain
MaxPrefix == 2       \* prefix operators stacked on one operand
MaxClauses == 3      \* clauses after the column list of a generated SELECT
MaxConstraints == 2  \* constraints on the first column of a CREATE TABLE
MaxExtraCols == 1    \* further columns of a generated CREATE TABLE

RECURSIVE Join(_)
Join(ws) ==
    IF ws = <<>> THEN <<>>
    ELSE IF Len(ws) = 1 THEN ws[1]
    ELSE ws[1] \o <<" ">> \o Join(Tail(ws))

\* all sequences of at most n elements of S
RECURSIVE SeqsUpTo(_, _)
SeqsUpTo(S, n) ==
    IF n = 0 THEN {<<>>}
    ELSE LET shorter == SeqsUpTo(S, n - 1) IN
         shorter \cup {Append(q, x) : q \in shorter, x \in S}

\* the concatenation of a sequence of word sequences
RECURSIVE Concat(_)
Concat(qs) == IF qs = <<>> THEN <<>> ELSE qs[1] \o Concat(Tail(qs))

wSELECT == <<"S","E","L","E","C","T">>
wFROM == <<"F","R","O","M">>
wWHERE == <<"W","H","E","R","E">>
wORDER == <<"O","R","D","E","R">>
wBY == <<"B","Y">>
wASC == <<"A","S","C">>
wDESC == <<"D","E","S","C">>
wAND == <<"A","N","D">>
wOR == <<"O","R">>
wNOT == <<"N","O","T">>
wTRUE == <<"T","R","U","E">>
wFALSE == <<"F","A","L","S","E">>
wCREATE == <<"C","R","E","A","T","E">>
wTABLE == <<"T","A","B","L","E">>
wPRIMARY == <<"P","R","I","M","A","R","Y">>
wKEY == <<"K","E","Y">>
wNULL == <<"N","U","L","L">>
wCHECK == <<"C","H","E","C","K">>
wINT == <<"I","N","T">>
wBOOL == <<"B","O","O","L">>
wVARCHAR == <<"V","A","R","C","H","A","R">>
wINVALID == <<"I","N","V","A","L","I","D">>

BinOpWords ==
    {<<"+">>, <<"-">>, <<"*">>, <<"/">>, <<"=">>, <<"!","=">>, <<">">>,
     <<">","=">>, <<"<">>, <<"<","=">>, wAND, wOR}

PrefixWords == {wNOT, <<"+">>, <<"-">>}

PostfixWords == {wASC, wDESC}

\* the operand written at the i-th place of a chain: identifiers or numbers
IdentOperands == <<"a", "b", "c", "d", "e">>
NumberOperands == <<"2", "3", "4", "5", "6">>

\* operand (operator operand)^k with the operands taken from `names`
RECURSIVE Chains(_, _)
Chains(k, names) ==
    IF k = 0 THEN {<< <<names[1]>> >>}
    ELSE {c \o <<op, <<names[k + 1]>> >> :
              c \in Chains(k - 1, names), op \in BinOpWords}

IdentChains == UNION {Chains(k, IdentOperands) : k \in 0..MaxOps}
NumberChains == UNION {Chains(k, NumberOperands) : k \in 0..MaxOps}

\* `(a op1 b) op2 c` and `a op2 (b op1 c)`
GroupedChains ==
    {<< <<"(">>, <<"a">>, op1, <<"b">>, <<")">>, op2, <<"c">> >> :
         op1 \in BinOpWords, op2 \in BinOpWords}
    \cup
    {<< <<"a">>, op2, <<"(">>, <<"b">>, op1, <<"c">>, <<")">> >> :
         op1 \in BinOpWords, op2 \in BinOpWords}

\* prefix operators before an operand, alone or followed by `op b`
PrefixChains ==
    {pre \o rest :
         pre \in SeqsUpTo(PrefixWords, MaxPrefix) \ {<<>>},
         rest \in {<< <<"a">> >>} \cup
                  {<< <<"a">>, op, <<"b">> >> : op \in BinOpWords}}

\* a chain followed by ASC or DESC
PostfixChains == {c \o <<d>> : c \in IdentChains, d \in PostfixWords}

\* single operands of every kind, and expressions that do not parse
OtherExpressions ==
    {<< <<"'", "s", " ", "t", "'">> >>, << <<"\"", "s", "\"">> >>,
     << wTRUE >>, << wFALSE >>, << <<"1", "0">> >>,
     << <<"5">>, <<"+">> >>,
     << <<"(">>, <<"5">>, <<"+">>, <<"3">> >>,
     << <<"*">>, <<"2">> >>,
     << <<"'", "s">> >>,
     << <<"a">>, wASC, <<"+">>, <<"b">> >>,
     << <<"a">>, <<"+">>, <<"(">>, <<"b">>, wASC, <<")">> >>,
     << <<"a">>, wASC, wDESC >>,
     << <<"(">>, <<"2">>, <<"+">>, <<"3">>, <<")">>, <<"*">>, <<"4">> >>,
     << <<"(">>, <<"5">>, <<"-">>, <<"x">>, <<")">>, <<"<">>,
        <<"(">>, <<"4">>, <<"+">>, <<"y">>, <<")">> >>,
     << <<"-">>, <<"5">> >>,
     << <<"a">>, <<"b">>, <<"+">>, <<"*">> >>,
     << <<"a">>, <<"*">>, <<"*">>, <<"b">> >>,
     << <<"(">>, <<"*">>, <<")">> >>,
     << <<"a">>, wASC, <<"*">>, <<"b">> >>,
     << <<"@">> >>,
     << <<"(">>, <<"(">>, <<"5">>, <<"+">>, <<"3">>, <<")">> >>,
     << <<"(">>, <<"a">>, <<";">> >>,
     << <<"(">>, <<"a">>, wFROM, <<")">> >>,
     << <<"2">>, <<"*">>, <<"(">>, <<"a">>, <<",">>, <<"b">>, <<")">> >>,
     << <<"(">>, <<"a">>, <<"+">>, <<"(">>, <<"b">>, <<")">> >>,
     << <<"a">>, <<"+">>, <<"@">> >>,
     << wNOT, <<"(">>, <<"@">>, <<")">> >>,
     << >>}

\* digit runs at the ends of u64, with leading zeros and next to a word
NumberTexts ==
    {<<"0">>, <<"0", "0", "7">>,
     U64Max,
     <<"0", "0">> \o U64Max,
     SubSeq(U64Max, 1, 19) \o <<"6">>,
     U64Max \o <<"0">>,
     <<"9">> \o Tail(U64Max),
     U64Max \o <<"a">>,
     U64Max \o <<"0", " ", "1">>,
     U64Max \o <<"0", "a">>,
     <<"1", "2", "a", "3", "4">>,
     <<"1", "2", "_", "3", "4">>,
     <<"1", "2", "3", " ", "4", "5", "6", " ", "7", "8", "9">>}

\* the digit runs as operands
NumberExpressions ==
    {<<n>> : n \in NumberTexts}
    \cup {<<n, <<"+">>, m>> :
             n \in {U64Max, U64Max \o <<"0">>}, m \in {<<"0", "0", "7">>, U64Max}}

ExprInputs ==
    {Join(ws) : ws \in IdentChains \cup NumberChains \cup GroupedChains
                       \cup PrefixChains \cup PostfixChains
                       \cup OtherExpressions \cup NumberExpressions}

\* column lists after SELECT
SelectColumns ==
    {<< <<"*">> >>,
     << <<"*">>, <<",">>, <<"a">> >>,
     << <<"*">>, <<"2">> >>,
     << <<"a">>, <<",">>, <<"*">> >>,
     << <<"i", "d">> >>,
     << <<"n", "a", "m", "e">>, <<",">>, <<"a", "g", "e">> >>,
     << <<"a", "g", "e">>, <<"*">>, <<"2">> >>,
     << <<"a", "g", "e">>, <<"*">>, <<"5">>, <<",">>, <<"'", "s", "'">> >>,
     << <<"i", "d">>, <<",">> >>,
     << <<"(">>, <<"*">>, <<")">> >>,
     << >>}

wUsers == <<"u", "s", "e", "r", "s">>
wAge == <<"a", "g", "e">>
wId == <<"i", "d">>
wSalary == <<"s", "a", "l", "a", "r", "y">>

\* SELECT <columns> FROM users ;
ColumnSelects ==
    {<<wSELECT>> \o cols \o <<wFROM, wUsers, <<";">> >> : cols \in SelectColumns}

\* the clauses that may follow the column list, well formed or not
SelectClauses ==
    {<<wFROM, wUsers>>,
     <<wFROM>>,
     <<wFROM, <<"5">> >>,
     <<wWHERE, wAge, <<">">>, <<"1", "8">> >>,
     <<wORDER, wBY, wAge, wDESC>>,
     <<wORDER, wBY, wSalary, <<"-">>, <<"2">>, <<"*">>, <<"1", "0">>, wASC,
       <<",">>, wId, wDESC>>,
     <<wORDER, wAge>>}

\* what ends a generated SELECT
SelectEnds ==
    {<< <<";">> >>, << >>, << <<";">>, <<"x">> >>, << <<")">> >>, << <<"x">> >>}

\* SELECT id <clauses> <end>
ClauseSelects ==
    {<<wSELECT, wId>> \o Concat(cl) \o end :
         cl \in SeqsUpTo(SelectClauses, MaxClauses), end \in SelectEnds}

\* one ORDER BY item: an expression, alone or followed by ASC or DESC
OrderItems ==
    {e \o d :
         e \in {<<wId>>,
                <<wSalary, <<"-">>, <<"2">>, <<"*">>, <<"1", "0">> >>,
                <<wNOT, <<"a">> >>,
                << <<"a">>, wOR, <<"b">> >>},
         d \in {<< >>, <<wASC>>, <<wDESC>>}}

\* SELECT id FROM users ORDER BY <item> [, <item>] ;
OrderSelects ==
    {<<wSELECT, wId, wFROM, wUsers, wORDER, wBY>> \o i1 \o <<";">> :
         i1 \in OrderItems}
    \cup
    {<<wSELECT, wId, wFROM, wUsers, wORDER, wBY>> \o i1 \o << <<",">> >> \o i2
         \o << <<";">> >> : i1 \in OrderItems, i2 \in OrderItems}

AgeCheck(op, n) == <<wCHECK, <<"(">>, wAge, op, n, <<")">> >>

\* the constraints of a column definition, well formed or not
ConstraintWords ==
    {<<wPRIMARY, wKEY>>,
     <<wNOT, wNULL>>,
     AgeCheck(<<">", "=">>, <<"1", "8">>),
     <<wPRIMARY>>,
     <<wNOT>>,
     <<wCHECK, wAge>>,
     << <<"x">> >>}

\* further column definitions, each after a comma
ExtraColumns ==
    {<< <<",">>, wAge, wINT >> \o AgeCheck(<<">", "=">>, <<"1", "8">>)
         \o AgeCheck(<<"<", "=">>, <<"6", "5">>),
     << <<",">>, <<"n", "a", "m", "e">>, wVARCHAR, <<"(">>, <<"2", "5", "5">>,
        <<")">>, wNOT, wNULL>>,
     << <<",">>, wAge, wINVALID>>}

\* CREATE TABLE users ( id INT <constraints> <further columns> ) ;
ConstraintCreates ==
    {<<wCREATE, wTABLE, wUsers, <<"(">>, wId, wINT>> \o Concat(cs) \o Concat(ex)
         \o << <<")">>, <<";">> >> :
         cs \in SeqsUpTo(ConstraintWords, MaxConstraints),
         ex \in SeqsUpTo(ExtraColumns, MaxExtraCols)}

\* the types of a column definition, well formed or not
TypeWords ==
    {<<wINT>>, <<wBOOL>>,
     <<wVARCHAR, <<"(">>, <<"2", "5", "5">>, <<")">> >>,
     <<wINVALID>>,
     <<wVARCHAR, <<"2", "5", "5">> >>,
     <<wVARCHAR, <<"(">>, <<"x">>, <<")">> >>,
     <<wVARCHAR, <<"(">>, <<"2", "5", "5">> >>,
     <<wVARCHAR, <<"(">>, <<"0">>, <<")">> >>,
     <<wVARCHAR, <<"(">>, U64Max, <<")">> >>,
     <<wVARCHAR, <<"(">>, U64Max \o <<"0">>, <<")">> >>,
     <<wVARCHAR, <<"(">>, <<"'", "5", "'">>, <<")">> >>,
     << <<"i", "n", "t">> >>,
     << <<"5">> >>,
     <<wTABLE>>,
     << >>}

\* what ends a generated CREATE TABLE
CreateEnds ==
    {<< <<")">>, <<";">> >>, << <<")">> >>, << <<";">> >>, << >>,
     << <<")">>, <<";">>, <<"x">> >>, << <<",">>, <<")">>, <<";">> >>,
     << <<")">>, <<")">> >>, << <<")">>, <<"x">> >>}

\* CREATE TABLE users ( id <type> <end>
TypeCreates ==
    {<<wCREATE, wTABLE, wUsers, <<"(">>, wId>> \o ty \o end :
         ty \in TypeWords, end \in CreateEnds}

\* statements that fail before the first clause
OtherStatements ==
    {<< >>,
     <<wId>>,
     <<wFROM, wUsers, <<";">> >>,
     << <<"5">>, <<"+">>, <<"3">> >>,
     <<wCREATE, wUsers>>,
     <<wCREATE, wTABLE, <<"(">>, wId, wINT, <<")">>, <<";">> >>,
     <<wCREATE, wTABLE, wUsers, wId, wINT, <<")">>, <<";">> >>,
     <<wCREATE, wTABLE, wUsers, <<"(">>, <<")">>, <<";">> >>,
     << <<"'", "s">> >>,
     <<wSELECT, <<"'", "s">> >>,
     <<wSELECT, <<"*">>, <<"'", "s">> >>,
     <<wSELECT, <<"*">>, <<"*">>, wFROM, wUsers, <<";">> >>,
     <<wSELECT, <<"*">>, wAge, wFROM, wUsers, <<";">> >>,
     <<wSELECT, wId, wFROM, wUsers, wWHERE, <<"*">>, <<"2">>, <<";">> >>,
     <<wSELECT, <<"*">>, wFROM, wUsers, wWHERE, wAge, <<"*">>, <<"2">>,
       <<">">>, <<"1", "8">>, wORDER, wBY, wAge, <<"*">>, wId, <<"*">>,
       <<"3">>, <<";">> >>,
     <<wSELECT, <<"*">>, wFROM, wUsers, wORDER, wBY, <<"*">>, <<";">> >>,
     <<wSELECT, <<"*">>, wFROM, wUsers, <<";">>, <<"+">>, <<"*">> >>,
     <<wSELECT, wId, <<"+">>, <<"*">>, wFROM, wUsers, <<";">> >>,
     <<wSELECT, wNOT, <<"*">>, wFROM, wUsers, <<";">> >>,
     <<wSELECT, wSalary, wWHERE, wSalary, <<">">>, <<"1", "0", "0", "0">>,
       <<";">> >>,
     <<wSELECT, wId, <<",">>, wAge, wUsers, <<";">> >>,
     <<wSELECT, wId, wFROM, wFROM, wUsers, <<";">> >>,
     <<wSELECT, wId, wFROM, <<"'", "u", "'">>, <<";">> >>,
     <<wSELECT, wId, wFROM, <<";">> >>,
     <<wSELECT, wId, wFROM, wUsers, wORDER, wBY, <<";">> >>,
     <<wSELECT, wId, wFROM, wUsers, wORDER, wBY>>,
     <<wSELECT, wId, wFROM, wUsers, wWHERE, wAge, <<">">>, <<"1", "8">>,
       wORDER, wBY, wAge, <<",">>, <<";">> >>,
     <<wSELECT, wId, wFROM, wUsers, wWHERE, <<";">> >>,
     <<wSELECT, wId, wFROM, wUsers, wWHERE, wAge, <<">">>, <<"'", "s">> >>,
     <<wSELECT, wId, wFROM, wUsers, wWHERE, wAge, <<"@">>, <<";">> >>,
     <<wSELECT, wId, wFROM, wUsers, wORDER, wBY, wAge, <<"+">>,
       U64Max \o <<"0">>, <<";">> >>,
     <<wCREATE, wTABLE, <<"e", "m", "p", "l", "o", "y", "e", "e", "s">>,
       <<"(">>, wId, wINT, wPRIMARY, wKEY, <<",">>, wAge, wINT>>
       \o AgeCheck(<<">", "=">>, <<"1", "8">>) \o << <<")">>, <<";">> >>,
     <<wCREATE, wTABLE, wUsers, <<"(">>, wId, wINT, wCHECK, <<"(">>, <<"(">>,
       wAge, <<"+">>, <<"1">>, <<")">>, <<"*">>, <<"2">>, <<">">>, <<"0">>,
       <<")">>, wNOT, wNULL, <<")">>, <<";">> >>,
     <<wCREATE, wTABLE, wUsers, <<"(">>, wId, wINT, wCHECK, <<"(">>, wAge,
       <<"1", "8">>, <<")">>, <<")">>, <<";">> >>,
     <<wCREATE, wTABLE, wUsers, <<"(">>, wId, wINT, wCHECK, <<"(">>, <<")">>,
       <<")">>, <<";">> >>,
     <<wCREATE, wTABLE, wUsers, <<"(">>, wId, wBOOL, wNOT, wNULL, wPRIMARY,
       wKEY>>,
     <<wSELECT, <<"(">>, wId, wFROM, wUsers, <<";">> >>,
     <<wCREATE>>,
     <<wCREATE, <<";">> >>,
     <<wCREATE, <<"'", "s">> >>,
     <<wCREATE, wSELECT, <<"*">>, wFROM, wUsers, <<";">> >>,
     <<wTABLE, wUsers, <<"(">>, wId, wINT, <<")">>, <<";">> >>,
     << <<";">> >>,
     << <<"@">>, wSELECT, <<"*">>, wFROM, wUsers, <<";">> >>,
     << <<"(">>, wSELECT, <<"*">>, wFROM, wUsers, <<";">>, <<")">> >>,
     << <<"s", "e", "l", "e", "c", "t">>, <<"*">>, wFROM, wUsers, <<";">> >>,
     <<wSELECT, <<"*">>, wFROM, wUsers, <<";">>,
       wSELECT, <<"*">>, wFROM, wUsers, <<";">> >>,
     <<wSELECT, wId, wFROM, wUsers, <<";">>, wUsers>>,
     <<wSELECT, wId, wFROM, wUsers, <<";">>, <<"@">> >>,
     <<wSELECT, wId, wFROM, wUsers, <<";">>, <<"'", "s">> >>,
     <<wSELECT, wId, wFROM, wUsers, <<";">>, <<"'", "s", "\"">> >>,
     <<wSELECT, wId, wFROM, wUsers, <<";">>, wId, <<"'", "s">> >>,
     <<wSELECT, wId, wFROM, wUsers, <<";">>, <<";">>, <<"'", "s", "\"">> >>,
     <<wCREATE, wTABLE, wUsers, <<"(">>, wId, wINT, <<")">>, <<";">>, wId>>,
     <<wCREATE, wTABLE, wUsers, <<"(">>, wId, wINT, <<")">>, <<";">>,
       <<"'", "s">> >>,
     <<wCREATE, wTABLE, wUsers, <<"(">>, wId, wINT, <<")">>, <<";">>,
       <<")">>, <<"\"", "s">> >>,
     <<wSELECT, wId, wASC, wFROM, wUsers, <<";">> >>,
     <<wSELECT, wId, wFROM, wUsers, wWHERE, wAge, wDESC, <<";">> >>,
     <<wSELECT, wId, wFROM, wUsers, wORDER, wBY, wAge, wASC, <<"+">>, wId,
       <<";">> >>,
     <<wSELECT, wId, wFROM, wUsers, wORDER, wBY, wAge, wASC, wDESC,
       <<";">> >>,
     <<wSELECT, wId, wFROM, wUsers, wORDER, wBY, wId, <<"+">>, <<"(">>,
       wAge, wASC, <<")">>, <<";">> >>,
     <<wSELECT, wId, wFROM, wUsers, wORDER, wBY, wNOT, wAge, wDESC,
       <<";">> >>,
     <<wCREATE, wTABLE, wUsers, <<"(">>, wId, wINT, wCHECK, <<"(">>, wId,
       wASC, <<")">>, <<")">>, <<";">> >>}

StmtInputs ==
    {Join(ws) : ws \in ColumnSelects \cup ClauseSelects \cup OrderSelects
                       \cup ConstraintCreates \cup TypeCreates
                       \cup OtherStatements}

---------------------------------------------------------------------------
\* The two entry points, each in two steps: Parser::new, then the parse

Unbuilt == [tokenizer |-> Tokenizer_new(<<>>), current_token |-> NoToken]
NoResult == [ok |-> FALSE, val |-> <<"pending">>]

Init ==
    /\ \/ input \in ExprInputs /\ harness = "expr"
       \/ input \in StmtInputs /\ harness = "stmt"
    /\ pc = "start"
    /\ parser = Unbuilt
    /\ result = NoResult
    /\ tokenizer = Unbuilt.tokenizer
    /\ yielded = <<>>

\* what the entry point returns
Returned(r) == [ok |-> r.ok, val |-> r.val]

\* Parser::new(Tokenizer::new(input)); on a lexical error in the first token
\* `?` (build_statement) or and_then (the tests) returns the error
NewStep(r) ==
    /\ parser' = r.st
    /\ pc' = IF r.ok THEN "ready" ELSE "done"
    /\ result' = IF r.ok THEN result ELSE Returned(r)

New ==
    /\ pc = "start"
    /\ NewStep(Parser_new(Tokenizer_new(input)))
    /\ UNCHANGED <<input, harness, tokenizer, yielded>>

ParseStep(r) ==
    /\ parser' = r.st
    /\ result' = Returned(r)
    /\ pc' = "done"

\* parser.parse_expression(0)
ParseExpression ==
    /\ pc = "ready" /\ harness = "expr"
    /\ ParseStep(parse_expression(parser, 0))
    /\ UNCHANGED <<input, harness, tokenizer, yielded>>

\* parser.parse_statement()
ParseStatement ==
    /\ pc = "ready" /\ harness = "stmt"
    /\ ParseStep(parse_statement(parser))
    /\ UNCHANGED <<input, harness, tokenizer, yielded>>

Next == New \/ ParseExpression \/ ParseStatement

Spec == Init /\ [][Next]_vars

---------------------------------------------------------------------------
\* build_statement called on an input of the caller's choice

\* before build_statement is called
BuildInit ==
    /\ input = <<>>
    /\ harness = "stmt"
    /\ pc = "call"
    /\ parser = Unbuilt
    /\ result = NoResult
    /\ tokenizer = Unbuilt.tokenizer
    /\ yielded = <<>>

\* build_statement(input)
BuildStatement ==
    /\ pc = "call"
    /\ input' \in StmtInputs
    /\ pc' = "start"
    /\ UNCHANGED <<harness, parser, result, tokenizer, yielded>>

BuildNext == BuildStatement \/ New \/ ParseStatement

\* build_statement has a step to take
Building == pc \in {"start", "ready"}

\* weak fairness of New \/ ParseStatement, with ENABLED written out: the
\* two are total on their states, so one of them is enabled exactly when
\* Building holds
FairBuild == []<>~Building \/ []<><<New \/ ParseStatement>>_vars

\* build_statement is called and runs on: nothing but its own loops and
\* recursion can keep it from returning
BuildSpec ==
    BuildInit /\ [][BuildNext]_vars /\ WF_vars(BuildStatement) /\ FairBuild

---------------------------------------------------------------------------
\* The Tokenizer iterated on its own, as tests/tokenizer_test.rs does

MaxTextLen == 3     \* characters of a generated text
MaxQuoteLen == 5    \* characters of a generated text of quotes
MaxNone == 2        \* calls of Iterator::next that are made after a None

\* the characters of the generated texts: one of each kind
TextChars == {"a", "1", "'", " ", ">", "=", "!", "@", "é"}

QuoteTextChars == {"a", "'", "\"", " "}

OperatorTextChars == {">", "<", "!", "=", " "}

\* the lower-case letter of an upper-case one
LowerChar(c) == CHOOSE l \in LowerLetters : UpperChar(l) = c

to_lowercase(s) == [i \in 1..Len(s) |-> LowerChar(s[i])]

\* the 21 spellings of the keywords
KeywordSpellings == {KeywordTable[i][1] : i \in 1..21}

\* every keyword in upper case, in lower case and capitalised, alone, with
\* a character more and next to a number
KeywordTexts ==
    LET cased == UNION {{k, to_lowercase(k),
                         <<k[1]>> \o to_lowercase(Tail(k))} :
                        k \in KeywordSpellings}
    IN  cased
        \cup {k \o <<c>> : k \in KeywordSpellings, c \in {"x", "_", "1", "é"}}
        \cup {<<"1", "2">> \o to_lowercase(k) : k \in KeywordSpellings}

\* the inputs of tests/tokenizer_test.rs that are not of the families above
TestTexts ==
    {Join(<<wSELECT, <<"n", "a", "m", "e", ",">>, <<"a", "g", "e">>, wFROM,
            <<"u", "s", "e", "r", "s", ";">> >>),
     Join(<<<<"'", "h", "e", "l", "l", "o", "'">>,
            <<"\"", "w", "o", "r", "l", "d", "\"">> >>),
     Join(<< <<"<">>, <<"<", "=">>, <<">">>, <<">", "=">>, <<"=">>,
             <<"!", "=">>, <<"+">>, <<"-">>, <<"*">>, <<"/">> >>),
     <<"'", "u", "n", "c", "l", "o", "s", "e", "d", " ",
       "s", "t", "r", "i", "n", "g">>,
     <<"'", "l", "i", "n", "e", "1", "\n", "l", "i", "n", "e", "2", "'">>,
     <<"(", ")", ",", ";", "#", "\t", "$">>}

\* Display for Keyword: the name of the variant
Keyword_fmt(k) ==
    LET i == CHOOSE j \in 1..Len(KeywordTable) : KeywordTable[j][2] = k
        word == KeywordTable[i][1]
    IN  <<word[1]>> \o to_lowercase(Tail(word))

\* a character as Debug for str writes it between the double quotes
DebugChar(c) ==
    CASE c = "\"" -> <<"\\", "\"">>
      [] c = "\\" -> <<"\\", "\\">>
      [] c = "\n" -> <<"\\", "n">>
      [] c = "\t" -> <<"\\", "t">>
      [] c = "\r" -> <<"\\", "r">>
      [] OTHER -> <<c>>

\* Debug for String
Debug_fmt(str) ==
    <<"\"">> \o Concat([i \in 1..Len(str) |-> DebugChar(str[i])]) \o <<"\"">>

\* Display for Token
Token_fmt(token) ==
    CASE token.type = "Keyword" -> Keyword_fmt(token.val[1])
      [] token.type = "Identifier" -> Debug_fmt(token.val)
      [] token.type = "String" -> Debug_fmt(token.val)
      [] token.type = "Number" -> token.val
      [] token = Tok("RightParentheses") -> <<"(">>
      [] token = Tok("LeftParentheses") -> <<")">>
      [] token = Tok("GreaterThan") -> <<">">>
      [] token = Tok("GreaterThanOrEqual") -> <<">", "=">>
      [] token = Tok("LessThan") -> <<"<">>
      [] token = Tok("LessThanOrEqual") -> <<"<", "=">>
      [] token = Tok("Equal") -> <<"=">>
      [] token = Tok("NotEqual") -> <<"!", "=">>
      [] token = Tok("Star") -> <<"*">>
      [] token = Tok("Divide") -> <<"/">>
      [] token = Tok("Minus") -> <<"-">>
      [] token = Tok("Plus") -> <<"+">>
      [] token = Tok("Comma") -> <<",">>
      [] token = Tok("Semicolon") -> <<";">>
      [] token = Eof -> <<"E", "o", "f">>
      [] token.type = "Invalid" -> token.val

\* the tokens of fixed text: punctuation and operators
FixedTokens ==
    {Tok("LeftParentheses"), Tok("RightParentheses"), Tok("Comma"),
     Tok("Semicolon"), Tok("GreaterThan"), Tok("GreaterThanOrEqual"),
     Tok("LessThan"), Tok("LessThanOrEqual"), Tok("Equal"), Tok("NotEqual"),
     Tok("Star"), Tok("Divide"), Tok("Plus"), Tok("Minus")}

\* what Display writes for the tokens of fixed text, for a keyword, an
\* identifier, a string, a number and the end-marker
RenderedTexts ==
    {Token_fmt(t) : t \in FixedTokens}
    \cup {Token_fmt(t) : t \in {TokKeyword("Select"), TokIdentifier(<<"a">>),
                                TokString(<<"a", "\"">>),
                                TokNumber(<<"1", "2">>), Eof,
                                TokInvalid("@")}}

\* string literals over keywords, operators, whitespace, a backslash and
\* a doubled quote
StringTexts ==
    {<<"'", "S", "E", "L", "E", "C", "T", " ", ">", "=", " ", "1", "'">>,
     <<"'", "a", "\\", "'">>,
     <<"'", "a", "\\", "'", " ", "b", "'">>,
     <<"'", "a", "'", "'", "b", "'">>,
     <<"\"", "\t", "\n", " ", "\r", "\"", ";">>}

TokInputs ==
    SeqsUpTo(TextChars, MaxTextLen) \cup SeqsUpTo(QuoteTextChars, MaxQuoteLen)
    \cup SeqsUpTo(OperatorTextChars, MaxTextLen)
    \cup KeywordTexts \cup NumberTexts \cup TestTexts \cup StringTexts
    \cup RenderedTexts

\* before the test has chosen its input
TokInit ==
    /\ input = <<>>
    /\ harness = "tokens"
    /\ pc = "start"
    /\ parser = Unbuilt
    /\ result = NoResult
    /\ tokenizer = Unbuilt.tokenizer
    /\ yielded = <<>>

\* let input = ...; Tokenizer::new(input)
TokenizerNew ==
    /\ pc = "start" /\ harness = "tokens"
    /\ \E text \in TokInputs :
          /\ input' = text
          /\ tokenizer' = Tokenizer_new(text)
    /\ pc' = "iterating"
    /\ UNCHANGED <<harness, parser, result, yielded>>

\* what the caller sees of Iterator::next: Option<Result<Token, String>>
Item(r) == [some |-> r.some, ok |-> r.ok, val |-> r.val]

NextStep(r) ==
    /\ tokenizer' = r.st
    /\ yielded' = Append(yielded, Item(r))

\* the caller has calls of next() to make: it stops after MaxNone calls have
\* returned None
CallsLeft ==
    /\ pc = "iterating"
    /\ Cardinality({i \in 1..Len(yielded) : ~yielded[i].some}) < MaxNone

\* one call of tokenizer.next()
IteratorNext ==
    /\ CallsLeft
    /\ NextStep(Tokenizer_next(tokenizer))
    /\ UNCHANGED <<input, harness, pc, parser, result>>

TokNext == TokenizerNew \/ IteratorNext

\* weak fairness of IteratorNext, with ENABLED <<IteratorNext>>_vars written
\* out: a call that is made returns an item or None, so the action is enabled
\* exactly when CallsLeft holds
FairCalls == []<>~CallsLeft \/ []<><<IteratorNext>>_vars

\* the test builds its tokenizer and keeps calling next(), and a call
\* returns: every loop of the tokenizer advances over the finite input
TokenizerSpec ==
    TokInit /\ [][TokNext]_vars /\ WF_vars(TokenizerNew) /\ FairCalls

---------------------------------------------------------------------------
\* What the claims speak about: the tokens of the input and the trees they
\* name

RECURSIVE ItemsFrom(_)
\* the items that Iterator::next yields from tz on, each with the position
\* the tokenizer is at after it
ItemsFrom(tz) ==
    LET r == Tokenizer_next(tz) IN
    IF r.some
    THEN <<[ok |-> r.ok, val |-> r.val, end |-> r.st.pos]>> \o ItemsFrom(r.st)
    ELSE <<>>

InputItems == ItemsFrom(Tokenizer_new(input))

\* no item is a lexical error
Lexed == LET items == InputItems IN \A i \in 1..Len(items) : items[i].ok

\* the tokens of the input, Eof last; an item that is a lexical error
\* stands as a token of type "Error"
InputTokens ==
    LET items == InputItems IN
    [i \in 1..Len(items) |->
        IF items[i].ok THEN items[i].val
        ELSE [type |-> "Error", val |-> items[i].val]]

ExprDone == pc = "done" /\ harness = "expr"
StmtDone == pc = "done" /\ harness = "stmt"

Returns(v) == result.ok /\ result.val = v
Fails(e) == ~result.ok /\ result.val = e

\* an operand: a number, a string, an identifier, TRUE or FALSE
IsOperand(t) ==
    \/ t.type \in {"Number", "String", "Identifier"}
    \/ t \in {TokKeyword("True"), TokKeyword("False")}

\* the leaf a claim writes for an operand
Leaf(t) ==
    IF t = TokKeyword("True") THEN <<"Bool", TRUE>>
    ELSE IF t = TokKeyword("False") THEN <<"Bool", FALSE>>
    ELSE <<t.type, t.val>>

\* the rank table of the claims: OR=2, AND=3, comparisons=4, + -=5, * /=6
Rank(t) ==
    CASE t = TokKeyword("Or") -> 2
      [] t = TokKeyword("And") -> 3
      [] t \in {Tok("Equal"), Tok("NotEqual"), Tok("GreaterThan"),
                Tok("GreaterThanOrEqual"), Tok("LessThan"),
                Tok("LessThanOrEqual")} -> 4
      [] t \in {Tok("Plus"), Tok("Minus")} -> 5
      [] t \in {Tok("Star"), Tok("Divide")} -> 6
      [] OTHER -> 0

IsBinary(t) == Rank(t) > 0

\* the node a claim writes for a binary operator token
Bin(l, t, r) ==
    <<"BinaryOperation", l,
      CASE t = Tok("Star") -> "Multiply"
        [] t.type = "Keyword" -> t.val[1]
        [] OTHER -> t.type,
      r>>

IsPrefix(t) == t \in {TokKeyword("Not"), Tok("Plus"), Tok("Minus")}
IsPostfix(t) == t \in {TokKeyword("Asc"), TokKeyword("Desc")}

\* the node a claim writes for a prefix or postfix operator token
Un(t, e) ==
    <<"UnaryOperation", e, IF t.type = "Keyword" THEN t.val[1] ELSE t.type>>

---------------------------------------------------------------------------
\* C1: `a op1 b op2 c` with binary operators of different rank parses to
\* op1(a, op2(b, c)) when rank(op2) > rank(op1) and to op2(op1(a, b), c)
\* when rank(op2) < rank(op1).

IsTriple(t) ==
    /\ Len(t) = 6 /\ t[6] = Eof
    /\ IsOperand(t[1]) /\ IsBinary(t[2]) /\ IsOperand(t[3])
    /\ IsBinary(t[4]) /\ IsOperand(t[5])

RightNested(t) == Bin(Leaf(t[1]), t[2], Bin(Leaf(t[3]), t[4], Leaf(t[5])))
LeftNested(t) == Bin(Bin(Leaf(t[1]), t[2], Leaf(t[3])), t[4], Leaf(t[5]))

C1_Precedence ==
    (ExprDone /\ Lexed /\ IsTriple(InputTokens)
       /\ Rank(InputTokens[2]) # Rank(InputTokens[4]))
    => Returns(IF Rank(InputTokens[4]) > Rank(InputTokens[2])
               THEN RightNested(InputTokens)
               ELSE LeftNested(InputTokens))

\* `2 + 3 * 4` has been parsed
C1_Witness ==
    /\ ExprDone
    /\ InputTokens = <<TokNumber(<<"2">>), Tok("Plus"), TokNumber(<<"3">>),
                       Tok("Star"), TokNumber(<<"4">>), Eof>>
    /\ Returns(RightNested(InputTokens))

\* C2: two binary operators of the same rank associate to the left:
\* `a op1 b op2 c` parses to op2(op1(a, b), c).
C2_LeftAssociative ==
    (ExprDone /\ Lexed /\ IsTriple(InputTokens)
       /\ Rank(InputTokens[2]) = Rank(InputTokens[4]))
    => Returns(LeftNested(InputTokens))

\* `a - b - c` has been parsed
C2_Witness ==
    /\ ExprDone
    /\ InputTokens = <<TokIdentifier(<<"a">>), Tok("Minus"),
                       TokIdentifier(<<"b">>), Tok("Minus"),
                       TokIdentifier(<<"c">>), Eof>>
    /\ Returns(LeftNested(InputTokens))

\* C3: a parenthesized sub-expression is one operand, whatever operators
\* are inside and outside: `(a op1 b) op2 c` parses to op2(op1(a, b), c) and
\* `a op2 (b op1 c)` parses to op2(a, op1(b, c)), for every pair of binary
\* operators.
IsGroupLeft(t) ==
    /\ Len(t) = 8 /\ t[8] = Eof
    /\ t[1] = Tok("LeftParentheses") /\ IsOperand(t[2]) /\ IsBinary(t[3])
    /\ IsOperand(t[4]) /\ t[5] = Tok("RightParentheses")
    /\ IsBinary(t[6]) /\ IsOperand(t[7])

IsGroupRight(t) ==
    /\ Len(t) = 8 /\ t[8] = Eof
    /\ IsOperand(t[1]) /\ IsBinary(t[2])
    /\ t[3] = Tok("LeftParentheses") /\ IsOperand(t[4]) /\ IsBinary(t[5])
    /\ IsOperand(t[6]) /\ t[7] = Tok("RightParentheses")

GroupLeftTree(t) == Bin(Bin(Leaf(t[2]), t[3], Leaf(t[4])), t[6], Leaf(t[7]))
GroupRightTree(t) == Bin(Leaf(t[1]), t[2], Bin(Leaf(t[4]), t[5], Leaf(t[6])))

C3_Grouping ==
    (ExprDone /\ Lexed)
    => /\ IsGroupLeft(InputTokens) => Returns(GroupLeftTree(InputTokens))
       /\ IsGroupRight(InputTokens) => Returns(GroupRightTree(InputTokens))

\* `(2 + 3) * 4` has been parsed
C3_Witness ==
    /\ ExprDone
    /\ InputTokens = <<Tok("LeftParentheses"), TokNumber(<<"2">>), Tok("Plus"),
                       TokNumber(<<"3">>), Tok("RightParentheses"),
                       Tok("Star"), TokNumber(<<"4">>), Eof>>
    /\ Returns(GroupLeftTree(InputTokens))

\* C4: a prefix NOT, '+' or '-' absorbs no binary operator, and prefix
\* operators nest with the first one outermost: p1 .. pk a parses to
\* p1(..pk(a)), and p1 .. pk a op b to op(p1(..pk(a)), b).
RECURSIVE PrefixCount(_, _)
\* the number of prefix operator tokens from t[i] on
PrefixCount(t, i) ==
    IF i <= Len(t) /\ IsPrefix(t[i]) THEN 1 + PrefixCount(t, i + 1) ELSE 0

RECURSIVE Prefixed(_, _, _)
\* t[i](..t[k](leaf t[k + 1]))
Prefixed(t, i, k) ==
    IF i > k THEN Leaf(t[k + 1]) ELSE Un(t[i], Prefixed(t, i + 1, k))

C4_PrefixOperand ==
    LET t == InputTokens
        k == PrefixCount(t, 1)
    IN  (ExprDone /\ Lexed /\ k > 0 /\ Len(t) > k + 1 /\ IsOperand(t[k + 1]))
        => /\ Len(t) = k + 2 => Returns(Prefixed(t, 1, k))
           /\ (Len(t) = k + 4 /\ IsBinary(t[k + 2]) /\ IsOperand(t[k + 3]))
              => Returns(Bin(Prefixed(t, 1, k), t[k + 2], Leaf(t[k + 3])))

\* `NOT a = b` has been parsed to Equal(Not(a), b)
C4_Witness ==
    /\ ExprDone
    /\ InputTokens = <<TokKeyword("Not"), TokIdentifier(<<"a">>), Tok("Equal"),
                       TokIdentifier(<<"b">>), Eof>>
    /\ Returns(BinaryOperation(UnaryOperation(ExprIdentifier(<<"a">>), "Not"),
                               "Equal", ExprIdentifier(<<"b">>)))

---------------------------------------------------------------------------
\* Parts of the input, parsed on their own

\* the text of the tokens i..j of the input
TokenText(i, j) ==
    LET items == InputItems IN
    SubSeq(input, IF i = 1 THEN 1 ELSE items[i - 1].end, items[j].end - 1)

\* parse_expression(0) on a text of its own
ParseText(text) ==
    LET n == Parser_new(Tokenizer_new(text)) IN
    IF n.ok THEN parse_expression(n.st, 0) ELSE n

\* the text is one whole expression
WholeExpr(text) ==
    LET r == ParseText(text) IN r.ok /\ r.st.current_token = Eof

\* the first index of tok in t, 0 if there is none
IndexOf(t, tok) ==
    IF \E i \in 1..Len(t) : t[i] = tok
    THEN CHOOSE i \in 1..Len(t) : t[i] = tok /\ \A k \in 1..(i - 1) : t[k] # tok
    ELSE 0

\* the number of indices in i..j where t holds tok
CountIn(t, i, j, tok) == Cardinality({k \in i..j : t[k] = tok})

\* the last index before j where t holds a token of S (there is one)
LastBefore(t, j, S) ==
    CHOOSE i \in 1..(j - 1) : t[i] \in S /\ \A k \in (i + 1)..(j - 1) : t[k] \notin S

SelectDone == StmtDone /\ result.ok /\ result.val.kind = "Select"
CreateDone == StmtDone /\ result.ok /\ result.val.kind = "CreateTable"

---------------------------------------------------------------------------
\* C5: an ASC or DESC that follows an expression wraps the whole of it: the
\* text `E ASC` parses to Asc(e) where e is what E parses to on its own, and
\* an ORDER BY item `E ASC` is Asc(e) in orderby, in source order;
\* `ORDER BY age DESC` yields [Desc(Identifier(age))].
C5_ExprPostfix ==
    LET t == InputTokens
        n == Len(t)
    IN  (ExprDone /\ Lexed /\ n >= 3 /\ IsPostfix(t[n - 1])
           /\ WholeExpr(TokenText(1, n - 2)))
        => Returns(Un(t[n - 1], ParseText(TokenText(1, n - 2)).val))

C5_OrderItems ==
    LET t == InputTokens
        o == IndexOf(t, TokKeyword("Order"))
    IN  (SelectDone /\ o > 0)
        => \A j \in (o + 3)..(Len(t) - 1) :
              (IsPostfix(t[j]) /\ t[j + 1] \in {Tok("Comma"), Tok("Semicolon")})
              => LET i == LastBefore(t, j, {TokKeyword("By"), Tok("Comma")})
                     item == 1 + CountIn(t, o, j, Tok("Comma"))
                 IN  /\ item <= Len(result.val.orderby)
                     /\ result.val.orderby[item]
                          = Un(t[j], ParseText(TokenText(i + 1, j - 1)).val)

C5_OrderByAgeDesc ==
    (StmtDone
       /\ InputTokens = <<TokKeyword("Select"), TokIdentifier(wId),
                          TokKeyword("From"), TokIdentifier(wUsers),
                          TokKeyword("Order"), TokKeyword("By"),
                          TokIdentifier(wAge), TokKeyword("Desc"),
                          Tok("Semicolon"), Eof>>)
    => Returns(Select(<<ExprIdentifier(wId)>>, wUsers, None,
                      <<UnaryOperation(ExprIdentifier(wAge), "Desc")>>))

\* C5: ASC and DESC wrap the whole preceding expression, in an expression
\* of its own and in each ORDER BY item.
C5_Postfix == C5_ExprPostfix /\ C5_OrderItems /\ C5_OrderByAgeDesc

\* `ORDER BY salary - 2 * 10 ASC, id DESC` has been parsed
C5_Witness ==
    /\ SelectDone
    /\ CountIn(InputTokens, 1, Len(InputTokens), TokKeyword("Order")) = 1
    /\ result.val.orderby =
         <<UnaryOperation(
               BinaryOperation(ExprIdentifier(wSalary), "Minus",
                   BinaryOperation(ExprNumber(<<"2">>), "Multiply",
                                   ExprNumber(<<"1", "0">>))),
               "Asc"),
           UnaryOperation(ExprIdentifier(wId), "Desc")>>

---------------------------------------------------------------------------
\* C6: a '*' right after SELECT is the one Wildcard column and FROM must
\* follow it; every other '*' the parser consumes is a Multiply operator;
\* a '*' where a prefix form is required fails the parse.

\* the input starts with SELECT *
IsSelectStar(t) ==
    Len(t) >= 3 /\ t[1] = TokKeyword("Select") /\ t[2] = Tok("Star")

RECURSIVE Multiplies(_)
\* the number of Multiply nodes of an expression
Multiplies(e) ==
    IF e[1] = "BinaryOperation"
    THEN (IF e[3] = "Multiply" THEN 1 ELSE 0) + Multiplies(e[2])
         + Multiplies(e[4])
    ELSE IF e[1] = "UnaryOperation" THEN Multiplies(e[2])
    ELSE 0

RECURSIVE MultipliesIn(_)
MultipliesIn(es) ==
    IF es = <<>> THEN 0 ELSE Multiplies(Head(es)) + MultipliesIn(Tail(es))

MultipliesOfSelect(s) ==
    MultipliesIn(s.columns) + MultipliesIn(s.orderby)
    + (IF s.where[1] = "Some" THEN Multiplies(s.where[2]) ELSE 0)

\* the tokens after which the parser asks for a prefix form
PrefixRequired ==
    {t \in {Tok("Plus"), Tok("Minus"), Tok("Star"), Tok("Divide"),
            Tok("Equal"), Tok("NotEqual"), Tok("GreaterThan"),
            Tok("GreaterThanOrEqual"), Tok("LessThan"),
            Tok("LessThanOrEqual"), TokKeyword("And"), TokKeyword("Or"),
            TokKeyword("Not"), Tok("LeftParentheses"), Tok("Comma"),
            TokKeyword("Where"), TokKeyword("By")} : TRUE}

StarInPrefixPosition == <<"Unexpected token in prefix position: ", Tok("Star")>>

\* SELECT * is the one Wildcard column, and FROM must follow
C6_Wildcard ==
    LET t == InputTokens
        items == InputItems
    IN  (StmtDone /\ IsSelectStar(t) /\ items[3].ok)
        => /\ t[3] # TokKeyword("From")
              => Fails(<<"Expected FROM clause in SELECT statement">>)
           /\ result.ok => result.val.columns = <<Wildcard>>
           /\ (Len(t) >= 6 /\ t[3] = TokKeyword("From")
                 /\ t[4].type = "Identifier" /\ t[5] = Tok("Semicolon")
                 /\ items[6].ok)
              => Returns(Select(<<Wildcard>>, t[4].val, None, <<>>))

\* every other '*' of a parsed SELECT or expression is a Multiply
C6_Multiply ==
    LET t == InputTokens IN
    /\ SelectDone
       => MultipliesOfSelect(result.val)
            = CountIn(t, IF IsSelectStar(t) THEN 3 ELSE 1,
                      IndexOf(t, Tok("Semicolon")), Tok("Star"))
    /\ (ExprDone /\ result.ok /\ parser.current_token = Eof)
       => Multiplies(result.val) = CountIn(t, 1, Len(t), Tok("Star"))

\* a '*' the parser comes to where a prefix form is required fails
C6_NotPrefix ==
    LET t == InputTokens
        items == InputItems
    IN  ((ExprDone \/ StmtDone) /\ Len(t) > 0
           /\ (harness = "stmt" => t[1] = TokKeyword("Select")))
        => \A i \in 1..Len(t) :
              (/\ t[i] = Tok("Star")
               /\ \A k \in 1..i : items[k].ok
               /\ IF i = 1 THEN harness = "expr"
                  ELSE t[i - 1] \in PrefixRequired
                       /\ ~(i = 3 /\ harness = "stmt")
               /\ parser.tokenizer.pos >= items[i].end)
              => Fails(StarInPrefixPosition)

C6_SelectAgeTimes2 ==
    (StmtDone
       /\ InputTokens = <<TokKeyword("Select"), TokIdentifier(wAge),
                          Tok("Star"), TokNumber(<<"2">>),
                          TokKeyword("From"), TokIdentifier(wUsers),
                          Tok("Semicolon"), Eof>>)
    => Returns(Select(<<BinaryOperation(ExprIdentifier(wAge), "Multiply",
                                        ExprNumber(<<"2">>))>>,
                      wUsers, None, <<>>))

\* C6: '*' after SELECT is the Wildcard column followed by FROM, every
\* other '*' is Multiply, and '*' is no prefix form.
C6_Star == C6_Wildcard /\ C6_Multiply /\ C6_NotPrefix /\ C6_SelectAgeTimes2

\* `SELECT * FROM users;` has been parsed
C6_Witness ==
    /\ StmtDone
    /\ InputTokens = <<TokKeyword("Select"), Tok("Star"), TokKeyword("From"),
                       TokIdentifier(wUsers), Tok("Semicolon"), Eof>>
    /\ Returns(Select(<<Wildcard>>, wUsers, None, <<>>))

---------------------------------------------------------------------------
\* The index in InputTokens of the parser's current token

LookaheadIndex(p) ==
    LET items == InputItems IN
    IF p.current_token = Eof THEN Len(items)
    ELSE CHOOSE k \in 1..Len(items) :
             items[k].end = p.tokenizer.pos
             /\ \A m \in 1..(k - 1) : items[m].end # p.tokenizer.pos

---------------------------------------------------------------------------
\* C7: a SELECT whose column list is not followed by FROM fails, whatever
\* follows, and so does one whose FROM is not followed by an identifier; a
\* Select is returned only with the identifier after FROM as its table.

ExpectedFrom == <<"Expected FROM clause in SELECT statement">>
ExpectedTableName == <<"Expected table name after FROM">>

\* on the tokens: one operand as column list
C7_AfterOperand ==
    LET t == InputTokens IN
    (StmtDone /\ Len(t) >= 3 /\ t[1] = TokKeyword("Select") /\ IsOperand(t[2]))
    => /\ (t[3] \notin {TokKeyword("From"), Tok("Comma")}
            /\ t[3].type # "Error" /\ ~IsBinary(t[3]) /\ ~IsPostfix(t[3]))
          => Fails(ExpectedFrom)
       /\ (Len(t) >= 4 /\ t[3] = TokKeyword("From")
            /\ t[4].type \notin {"Identifier", "Error"})
          => Fails(ExpectedTableName)

\* with the column list as select_columns reads it
C7_AfterColumns ==
    LET t == InputTokens
        a == advance_token(Parser_new(Tokenizer_new(input)).st)
        columns == select_columns(a.st)
        b == advance_token(columns.st)
    IN  (StmtDone /\ Len(t) > 0 /\ t[1] = TokKeyword("Select") /\ a.ok
           /\ columns.ok)
        => /\ columns.st.current_token # TokKeyword("From")
              => Fails(ExpectedFrom)
           /\ (columns.st.current_token = TokKeyword("From") /\ b.ok
                /\ b.st.current_token.type # "Identifier")
              => Fails(ExpectedTableName)
           /\ result.ok
              => /\ result.val.columns = columns.val
                 /\ LookaheadIndex(columns.st) = IndexOf(t, TokKeyword("From"))

\* a Select names the identifier after the first FROM; no FROM, no Select
C7_FromOfSelect ==
    LET t == InputTokens
        f == IndexOf(t, TokKeyword("From"))
    IN  /\ (StmtDone /\ Len(t) > 0 /\ t[1] = TokKeyword("Select") /\ f = 0)
           => ~result.ok
        /\ SelectDone
           => /\ f > 0
              /\ t[f + 1].type = "Identifier"
              /\ result.val.from = t[f + 1].val

\* C7: FROM and the identifier after it are mandatory in a SELECT.
C7_FromMandatory == C7_AfterOperand /\ C7_AfterColumns /\ C7_FromOfSelect

\* `SELECT id;` has failed for want of FROM
C7_Witness ==
    /\ StmtDone
    /\ InputTokens = <<TokKeyword("Select"), TokIdentifier(wId),
                       Tok("Semicolon"), Eof>>
    /\ Fails(ExpectedFrom)

---------------------------------------------------------------------------
\* C8: a statement is returned only if a semicolon is the last token
\* consumed, right after the last clause of a SELECT or the ')' of a CREATE
\* TABLE; a statement that parses with the semicolon fails without it, at the
\* end of input or before a token that continues no clause.

\* parse_statement on a text of its own
ParseStatementText(text) ==
    LET n == Parser_new(Tokenizer_new(text)) IN
    IF n.ok THEN parse_statement(n.st) ELSE n

ExpectedSemicolon(t) ==
    IF t[1] = TokKeyword("Select")
    THEN <<"Expected semicolon at the end of the SELECT statement">>
    ELSE <<"Expected semicolon at the end of the CREATE TABLE statement">>

\* Ok only with the semicolon consumed last
C8_OkOnlyWithSemicolon ==
    LET t == InputTokens
        s == IndexOf(t, Tok("Semicolon"))
    IN  (StmtDone /\ result.ok)
        => /\ s > 1
           /\ LookaheadIndex(parser) = s + 1
           /\ CreateDone => t[s - 1] = Tok("RightParentheses")
           /\ LET cut == ParseStatementText(TokenText(1, s - 1))
              IN  ~cut.ok /\ cut.val = ExpectedSemicolon(t)

\* no semicolon is written: the clauses parse, and Eof or a token that
\* continues no clause follows
C8_FailsWithoutSemicolon ==
    LET t == InputTokens
        n == Len(t)
    IN  (StmtDone /\ Lexed /\ n >= 2 /\ IndexOf(t, Tok("Semicolon")) = 0)
        => /\ ParseStatementText(input \o <<" ", ";">>).ok
              => Fails(ExpectedSemicolon(t))
           /\ (n >= 3
                /\ (t[n - 1] = Tok("RightParentheses") \/ IsOperand(t[n - 1]))
                /\ ParseStatementText(TokenText(1, n - 2) \o <<" ", ";">>).ok)
              => Fails(ExpectedSemicolon(t))

\* C8: the semicolon is mandatory for SELECT and for CREATE TABLE.
C8_Terminator == C8_OkOnlyWithSemicolon /\ C8_FailsWithoutSemicolon

\* `CREATE TABLE users(id INT)` has failed for want of the semicolon
C8_Witness ==
    /\ StmtDone
    /\ InputTokens = <<TokKeyword("Create"), TokKeyword("Table"),
                       TokIdentifier(wUsers), Tok("LeftParentheses"),
                       TokIdentifier(wId), TokKeyword("Int"),
                       Tok("RightParentheses"), Eof>>
    /\ Fails(ExpectedSemicolon(InputTokens))

---------------------------------------------------------------------------
\* C9: in a returned Select, where is None exactly when the token after the
\* table name is not WHERE, and orderby is empty exactly when the token
\* after the WHERE expression (if any) is not ORDER; WHERE comes before
\* ORDER BY; an ORDER not followed by BY fails with `Expected BY after
\* ORDER`.

ExpectedBy == <<"Expected BY after ORDER">>

\* the clauses of a returned Select, read off the tokens
C9_ClausesOfSelect ==
    LET t == InputTokens
        f == IndexOf(t, TokKeyword("From"))
        s == IndexOf(t, Tok("Semicolon"))
        o == IndexOf(SubSeq(t, 1, s), TokKeyword("Order"))
        w == IndexOf(SubSeq(t, 1, s), TokKeyword("Where"))
        \* where the WHERE expression, if any, ends
        e == IF o > 0 THEN o ELSE s
    IN  SelectDone
        => /\ (result.val.where = None) <=> (t[f + 2] # TokKeyword("Where"))
           /\ w > 0 => (w = f + 2 /\ (o > 0 => w < o))
           /\ w > 0 => result.val.where
                          = Some(ParseText(TokenText(w + 1, e - 1)).val)
           /\ (result.val.orderby = <<>>)
                <=> (t[IF w > 0 THEN e ELSE f + 2] # TokKeyword("Order"))
           /\ (result.val.orderby = <<>>) <=> (o = 0)
           /\ o > 0 => /\ t[o + 1] = TokKeyword("By")
                       /\ Len(result.val.orderby)
                            = 1 + CountIn(t, o, s, Tok("Comma"))
           /\ CountIn(t, 1, s, TokKeyword("Where")) <= 1
           /\ CountIn(t, 1, s, TokKeyword("Order")) <= 1

\* ORDER where ORDER BY may start, and something else than BY after it
C9_OrderWithoutBy ==
    LET t == InputTokens
        o == IndexOf(t, TokKeyword("Order"))
    IN  (StmtDone /\ o > 1 /\ t[1] = TokKeyword("Select")
           /\ t[o + 1].type # "Error" /\ t[o + 1] # TokKeyword("By")
           /\ ParseStatementText(TokenText(1, o - 1) \o <<" ", ";">>).ok)
        => Fails(ExpectedBy)

\* a WHERE after ORDER BY is not accepted
C9_WhereAfterOrder ==
    LET t == InputTokens
        s == IndexOf(t, Tok("Semicolon"))
        o == IndexOf(t, TokKeyword("Order"))
    IN  (StmtDone /\ Len(t) > 0 /\ t[1] = TokKeyword("Select") /\ o > 0
           /\ \E w \in (o + 1)..Len(t) :
                  t[w] = TokKeyword("Where") /\ (s = 0 \/ w < s))
        => ~result.ok

C9_SimpleSelect ==
    (StmtDone
       /\ InputTokens = <<TokKeyword("Select"),
                          TokIdentifier(<<"n", "a", "m", "e">>), Tok("Comma"),
                          TokIdentifier(wAge), TokKeyword("From"),
                          TokIdentifier(wUsers), Tok("Semicolon"), Eof>>)
    => Returns(Select(<<ExprIdentifier(<<"n", "a", "m", "e">>),
                        ExprIdentifier(wAge)>>, wUsers, None, <<>>))

\* C9: WHERE and ORDER BY are optional, independent and in that order, and
\* ORDER requires BY.
C9_OptionalClauses ==
    /\ C9_ClausesOfSelect /\ C9_OrderWithoutBy /\ C9_WhereAfterOrder
    /\ C9_SimpleSelect

\* `SELECT id FROM users WHERE age > 18;` has been parsed
C9_Witness ==
    /\ StmtDone
    /\ InputTokens = <<TokKeyword("Select"), TokIdentifier(wId),
                       TokKeyword("From"), TokIdentifier(wUsers),
                       TokKeyword("Where"), TokIdentifier(wAge),
                       Tok("GreaterThan"), TokNumber(<<"1", "8">>),
                       Tok("Semicolon"), Eof>>
    /\ Returns(Select(<<ExprIdentifier(wId)>>, wUsers,
                      Some(BinaryOperation(ExprIdentifier(wAge), "GreaterThan",
                                           ExprNumber(<<"1", "8">>))),
                      <<>>))

---------------------------------------------------------------------------
\* C10: the column definitions of a CREATE TABLE, read off the tokens: a
\* name, a type, then PRIMARY KEY, NOT NULL and CHECK ( expression ) in any
\* order and number up to ',' or ')'. The statement returns the columns and
\* their constraints in source order; PRIMARY without KEY, NOT without NULL,
\* CHECK without '(' and any other token fail it, each with its message.

RefOk(v, next) == [kind |-> "ok", val |-> v, next |-> next]
\* a failure whose message the column grammar fixes
RefErr(e) == [kind |-> "err", val |-> e, next |-> 0]
\* a failure of the type, of the name or inside a CHECK expression
RefOther == [kind |-> "other", val |-> <<>>, next |-> 0]

RECURSIVE MatchClose(_, _, _)
\* the index of the ')' that closes the '(' before t[i], 0 if there is none
MatchClose(t, i, depth) ==
    IF i > Len(t) THEN 0
    ELSE IF t[i] = Tok("RightParentheses")
    THEN IF depth = 1 THEN i ELSE MatchClose(t, i + 1, depth - 1)
    ELSE IF t[i] = Tok("LeftParentheses") THEN MatchClose(t, i + 1, depth + 1)
    ELSE MatchClose(t, i + 1, depth)

\* the constraint CHECK ( expression ) at t[i]
RefCheck(t, i) ==
    IF t[i + 1] # Tok("LeftParentheses")
    THEN RefErr(<<"Expected ( after CHECK">>)
    ELSE LET close == MatchClose(t, i + 2, 1) IN
         IF close <= i + 2 THEN RefOther
         ELSE LET inner == ParseText(TokenText(i + 2, close - 1)) IN
              IF ~inner.ok THEN RefOther
              ELSE IF inner.st.current_token # Eof
              THEN RefErr(<<"Expected ) after CHECK expression">>)
              ELSE RefOk(Check(inner.val), close + 1)

\* the constraint at t[i]
RefConstraint(t, i) ==
    IF t[i] = TokKeyword("Primary")
    THEN IF t[i + 1] = TokKeyword("Key") THEN RefOk(PrimaryKey, i + 2)
         ELSE RefErr(<<"Expected KEY after PRIMARY">>)
    ELSE IF t[i] = TokKeyword("Not")
    THEN IF t[i + 1] = TokKeyword("Null") THEN RefOk(NotNull, i + 2)
         ELSE RefErr(<<"Expected NULL after NOT">>)
    ELSE RefCheck(t, i)

RECURSIVE RefConstraints(_, _, _)
\* the constraints from t[i] on, after those of acc
RefConstraints(t, i, acc) ==
    IF t[i] \in {Tok("Comma"), Tok("RightParentheses")} THEN RefOk(acc, i)
    ELSE IF t[i] \in {TokKeyword("Primary"), TokKeyword("Not"),
                      TokKeyword("Check")}
    THEN LET one == RefConstraint(t, i) IN
         IF one.kind = "ok"
         THEN RefConstraints(t, one.next, Append(acc, one.val))
         ELSE one
    ELSE RefErr(<<"Unexpected token in column definition: ", t[i]>>)

\* the type at t[i]
RefType(t, i) ==
    IF t[i] = TokKeyword("Int") THEN RefOk(DBInt, i + 1)
    ELSE IF t[i] = TokKeyword("Bool") THEN RefOk(DBBool, i + 1)
    ELSE IF /\ t[i] = TokKeyword("Varchar") /\ i + 3 <= Len(t)
            /\ t[i + 1] = Tok("LeftParentheses") /\ t[i + 2].type = "Number"
            /\ t[i + 3] = Tok("RightParentheses")
    THEN RefOk(DBVarchar(t[i + 2].val), i + 4)
    ELSE RefOther

\* the column definition at t[i]
RefColumn(t, i) ==
    IF t[i].type # "Identifier" THEN RefOther
    ELSE LET type == RefType(t, i + 1) IN
         IF type.kind # "ok" THEN type
         ELSE LET constraints == RefConstraints(t, type.next, <<>>) IN
              IF constraints.kind # "ok" THEN constraints
              ELSE RefOk(TableColumn(t[i].val, type.val, constraints.val),
                         constraints.next)

RECURSIVE RefColumns(_, _, _)
\* the column definitions from t[i] on, after those of acc
RefColumns(t, i, acc) ==
    LET column == RefColumn(t, i) IN
    IF column.kind # "ok" THEN column
    ELSE IF t[column.next] = Tok("Comma")
    THEN RefColumns(t, column.next + 1, Append(acc, column.val))
    ELSE RefOk(Append(acc, column.val), column.next)

\* the input starts with CREATE TABLE <name> (
IsCreateTable(t) ==
    /\ Len(t) >= 5
    /\ t[1] = TokKeyword("Create") /\ t[2] = TokKeyword("Table")
    /\ t[3].type = "Identifier" /\ t[4] = Tok("LeftParentheses")

C10_ColumnDefinitions ==
    LET t == InputTokens
        columns == RefColumns(t, 5, <<>>)
    IN  (StmtDone /\ Lexed /\ IsCreateTable(t))
        => /\ columns.kind = "err" => Fails(columns.val)
           /\ columns.kind = "other" => ~result.ok
           /\ columns.kind = "ok"
              => IF t[columns.next + 1] = Tok("Semicolon")
                 THEN Returns(CreateTable(t[3].val, columns.val))
                 ELSE ~result.ok

\* `CREATE TABLE employees(id INT PRIMARY KEY, age INT CHECK(age >= 18));`
\* has been parsed
C10_Witness ==
    /\ StmtDone
    /\ Returns(CreateTable(<<"e", "m", "p", "l", "o", "y", "e", "e", "s">>,
           <<TableColumn(wId, DBInt, <<PrimaryKey>>),
             TableColumn(wAge, DBInt,
                 <<Check(BinaryOperation(ExprIdentifier(wAge),
                                         "GreaterThanOrEqual",
                                         ExprNumber(<<"1", "8">>)))>>)>>))

---------------------------------------------------------------------------
\* C11: after a column name the type is INT, BOOL or VARCHAR ( number ),
\* giving Int, Bool and Varchar(n) with n the number; any other token fails
\* with `Expected data type, got <token>`, and VARCHAR without '(', without
\* a number or without ')' fails with the message of the missing part.

TypeKeywords ==
    {TokKeyword("Int"), TokKeyword("Bool"), TokKeyword("Varchar")}

\* the failure that the type written at t[i] asks for, <<>> if it is well
\* formed
TypeError(t, i) ==
    IF t[i] \notin TypeKeywords THEN <<"Expected data type, got ", t[i]>>
    ELSE IF t[i] # TokKeyword("Varchar") THEN <<>>
    ELSE IF t[i + 1] # Tok("LeftParentheses")
    THEN <<"Expected ( after VARCHAR">>
    ELSE IF t[i + 2].type # "Number"
    THEN <<"Expected number for VARCHAR length">>
    ELSE IF t[i + 3] # Tok("RightParentheses")
    THEN <<"Expected ) after VARCHAR length">>
    ELSE <<>>

\* where the part that TypeError(t, i) misses should stand
TypeErrorIndex(t, i) ==
    IF t[i] \notin TypeKeywords THEN i
    ELSE IF t[i + 1] # Tok("LeftParentheses") THEN i + 1
    ELSE IF t[i + 2].type # "Number" THEN i + 2
    ELSE i + 3

\* the type that the well-formed type at t[i] gives
TypeOf(t, i) ==
    IF t[i] = TokKeyword("Int") THEN DBInt
    ELSE IF t[i] = TokKeyword("Bool") THEN DBBool
    ELSE DBVarchar(t[i + 2].val)

\* the indices where a column definition starts with its name
ColumnStarts(t) ==
    {i \in 5..(Len(t) - 1) :
        /\ t[i].type = "Identifier"
        /\ i = 5 \/ t[i - 1] = Tok("Comma")
        /\ \A k \in 1..i : t[k] # Tok("Semicolon")}

\* the type of the first column
C11_FirstColumnType ==
    LET t == InputTokens IN
    (StmtDone /\ Lexed /\ IsCreateTable(t) /\ t[5].type = "Identifier")
    => IF TypeError(t, 6) # <<>> THEN Fails(TypeError(t, 6))
       ELSE /\ result.ok => result.val.column_list[1].column_type = TypeOf(t, 6)
            /\ LET e == IF t[6] = TokKeyword("Varchar") THEN 10 ELSE 7 IN
               (t[e] = Tok("RightParentheses") /\ t[e + 1] = Tok("Semicolon"))
               => Returns(CreateTable(t[3].val,
                              <<TableColumn(t[5].val, TypeOf(t, 6), <<>>)>>))

\* the type of every column
C11_EveryColumnType ==
    LET t == InputTokens IN
    (StmtDone /\ Lexed /\ IsCreateTable(t))
    => \A i \in ColumnStarts(t) :
          IF TypeError(t, i + 1) # <<>>
          THEN /\ ~result.ok
               /\ LookaheadIndex(parser) = TypeErrorIndex(t, i + 1)
                  => Fails(TypeError(t, i + 1))
          ELSE result.ok
               => LET k == 1 + CountIn(t, 5, i, Tok("Comma")) IN
                  result.val.column_list[k].column_type = TypeOf(t, i + 1)

\* C11: the three forms of a type and the failures of every other form, for
\* the first column and for every column.
C11_DbType == C11_FirstColumnType /\ C11_EveryColumnType

\* `CREATE TABLE users(id INT, age INVALID);` has failed at INVALID
C11_Witness ==
    /\ StmtDone
    /\ InputTokens = <<TokKeyword("Create"), TokKeyword("Table"),
                       TokIdentifier(wUsers), Tok("LeftParentheses"),
                       TokIdentifier(wId), TokKeyword("Int"), Tok("Comma"),
                       TokIdentifier(wAge), TokIdentifier(wINVALID),
                       Tok("RightParentheses"), Tok("Semicolon"), Eof>>
    /\ Fails(<<"Expected data type, got ", TokIdentifier(wINVALID)>>)

---------------------------------------------------------------------------
\* C12: repeated calls of Iterator::next yield finitely many items, among
\* them exactly one Eof, which is the last item; every later call returns
\* None; the empty input yields the Eof alone, and no error.

\* the tokenizer has been iterated to its end
TokDone ==
    harness = "tokens" /\ yielded # <<>> /\ ~yielded[Len(yielded)].some

\* what an item is: a token, an error, or the None after the end
IsTok(y, t) == y.some /\ y.ok /\ y.val = t
IsErr(y, e) == y.some /\ ~y.ok /\ y.val = e
IsNone(y) == ~y.some

\* the items, without the None that follow them
YieldedItems == SelectSeq(yielded, LAMBDA y : y.some)

C12_EofLast ==
    harness = "tokens"
    => LET n == Len(yielded) IN
       \* an Eof is followed by None alone, and None follows an Eof or a None
       /\ \A i \in 1..n :
            /\ IsTok(yielded[i], Eof)
               => \A j \in (i + 1)..n : IsNone(yielded[j])
            /\ IsNone(yielded[i])
               => i > 1 /\ (IsTok(yielded[i - 1], Eof) \/ IsNone(yielded[i - 1]))
       \* an item that is not the Eof has taken one character at least
       /\ Len(YieldedItems) <= Len(input) + 1
       /\ Cardinality({i \in 1..n : IsTok(yielded[i], Eof)}) <= 1
       /\ input = <<>> /\ n > 0 => IsTok(yielded[1], Eof)
       /\ TokDone => IsTok(YieldedItems[Len(YieldedItems)], Eof)

\* C12: the calls come to None, after one Eof that is the last item.
C12_OneEofThenNone ==
    /\ []C12_EofLast
    /\ harness = "tokens" => <>TokDone

\* `'a" a` has yielded an error, a token and the Eof, and then None twice
C12_Witness ==
    /\ input = <<"'", "a", "\"", " ", "a">>
    /\ Len(yielded) = 5
    /\ IsErr(yielded[1], <<"Mismatched quotes: string started with ", "'",
                           " but found ", "\"">>)
    /\ IsTok(yielded[2], TokIdentifier(<<"a">>))
    /\ IsTok(yielded[3], Eof)
    /\ IsNone(yielded[4]) /\ IsNone(yielded[5])

---------------------------------------------------------------------------
\* C13: a string literal fails in two ways that the message tells apart:
\* `Mismatched quotes` when the other quote character comes before the
\* closing one, `Unterminated string` when the input ends before any quote
\* character; in neither case is a String token produced for the literal.

\* the first position from i on whose character is in S, or Len(text) + 1
FirstIn(text, i, S) ==
    LET hits == {j \in i..Len(text) : text[j] \in S} IN
    IF hits = {} THEN Len(text) + 1
    ELSE CHOOSE j \in hits : \A k \in hits : j <= k

\* where the next token starts: the first position from the tokenizer's on
\* that holds no whitespace
TokenStart ==
    LET rest == {j \in tokenizer.pos..Len(input) : input[j] \notin Whitespace}
    IN  IF rest = {} THEN Len(input) + 1
        ELSE CHOOSE j \in rest : \A k \in rest : j <= k

\* a call of next() has returned an item
Called == harness = "tokens" /\ pc = "iterating" /\ yielded' # yielded

\* the item that the call has returned
NewItem == yielded'[Len(yielded')]

MismatchedQuotes(q, found) ==
    <<"Mismatched quotes: string started with ", q, " but found ", found>>
UnterminatedString(q) == <<"Unterminated string starting with ", q>>

\* a call of next() at a quote character
C13_StringStep ==
    LET s == TokenStart IN
    (Called /\ s <= Len(input) /\ input[s] \in Quotes)
    => LET q == input[s]
           k == FirstIn(input, s + 1, Quotes)
       IN  IF k > Len(input)
           THEN /\ IsErr(NewItem, UnterminatedString(q))
                /\ tokenizer'.pos = Len(input) + 1
           ELSE IF input[k] # q
           THEN /\ IsErr(NewItem, MismatchedQuotes(q, input[k]))
                /\ tokenizer'.pos = k + 1
           ELSE /\ IsTok(NewItem, TokString(SubSeq(input, s + 1, k - 1)))
                /\ tokenizer'.pos = k + 1

\* C13: at a quote character, next() gives the String when the same quote
\* closes it, and else the error of the way it fails.
C13_StringErrors == [][C13_StringStep]_vars

\* `'" 'a` has yielded a mismatched-quotes error, an unterminated-string
\* error and the Eof
C13_Witness ==
    /\ input = <<"'", "\"", " ", "'", "a">>
    /\ Len(yielded) = 3
    /\ IsErr(yielded[1], MismatchedQuotes("'", "\""))
    /\ IsErr(yielded[2], UnterminatedString("'"))
    /\ IsTok(yielded[3], Eof)

---------------------------------------------------------------------------
\* C14: an input without a quote character yields no error, and each of its
\* characters that starts no token -- one that is no digit, ASCII letter,
\* underscore, quote, whitespace or operator character -- becomes one
\* Invalid token carrying it, unless a word has taken it in as one of its
\* alphanumeric characters.

OperatorChars ==
    {"(", ")", ",", ";", ">", "<", "=", "!", "*", "/", "+", "-"}

\* the characters that no token starts with
Stray(c) ==
    c \notin Digits \cup LowerLetters \cup UpperLetters \cup {"_"}
             \cup Quotes \cup Whitespace \cup OperatorChars

NoQuote == \A i \in 1..Len(input) : input[i] \notin Quotes

\* the characters of the Invalid tokens that carry a stray character
StrayInvalids ==
    LET invalid == SelectSeq(YieldedItems,
                             LAMBDA y : /\ y.ok
                                        /\ y.val.type = "Invalid"
                                        /\ Stray(y.val.val[1]))
    IN  [k \in 1..Len(invalid) |-> invalid[k].val.val[1]]

\* the characters of the input at the positions of P, in their order
CharsAt(P) ==
    [k \in 1..Cardinality(P) |->
        input[CHOOSE i \in P : Cardinality({j \in P : j <= i}) = k]]

\* input[i] continues a word: a run of alphanumeric characters and
\* underscores that started with an ASCII letter or an underscore before i
InWord(i) ==
    \E j \in 1..(i - 1) :
        /\ input[j] \in LowerLetters \cup UpperLetters \cup {"_"}
        /\ \A k \in j..i : input[k] \in IdentPart

AllOk == \A i \in 1..Len(yielded) : yielded[i].ok

\* the claim as it stands: every stray character becomes an Invalid token
C14_EveryStrayInvalid ==
    (TokDone /\ NoQuote)
    => /\ AllOk
       /\ StrayInvalids = CharsAt({i \in 1..Len(input) : Stray(input[i])})

\* every stray character outside a word becomes an Invalid token
C14_StrayOutsideWord ==
    (TokDone /\ NoQuote)
    => /\ AllOk
       /\ StrayInvalids
            = CharsAt({i \in 1..Len(input) : Stray(input[i]) /\ ~InWord(i)})

\* a call of next() at a stray character takes that character alone
C14_StrayStep ==
    LET s == TokenStart IN
    (Called /\ s <= Len(input) /\ Stray(input[s]))
    => /\ IsTok(NewItem, TokInvalid(input[s]))
       /\ tokenizer'.pos = s + 1

\* C14: without a quote character no item is an error, and a stray
\* character becomes one Invalid token carrying it wherever a token starts
\* at it, which is wherever no word has taken it in.
C14_StrayCharacters ==
    /\ [](harness = "tokens" /\ NoQuote => AllOk)
    /\ []C14_StrayOutsideWord
    /\ [][C14_StrayStep]_vars

\* `éaé` has yielded Invalid(é) and the Identifier aé
C14_Witness ==
    /\ input = <<"é", "a", "é">>
    /\ Len(yielded) = 3
    /\ IsTok(yielded[1], TokInvalid("é"))
    /\ IsTok(yielded[2], TokIdentifier(<<"a", "é">>))
    /\ IsTok(yielded[3], Eof)

---------------------------------------------------------------------------
\* C15: a maximal run of digits is one token: Number(value) when the value
\* fits a u64, and else Invalid('0'), with the whole run consumed; so every
\* Number token and every Expression::Number holds a value of 0..2^64-1.

\* the first position from i on whose character is not in S, or
\* Len(text) + 1
FirstNotIn(text, i, S) ==
    LET rest == {j \in i..Len(text) : text[j] \notin S} IN
    IF rest = {} THEN Len(text) + 1
    ELSE CHOOSE j \in rest : \A k \in rest : j <= k

\* the decimal form of the value of a digit run: without its leading zeros
Decimal(run) ==
    LET z == FirstNotIn(run, 1, {"0"}) IN
    IF z > Len(run) THEN <<"0">> ELSE SubSeq(run, z, Len(run))

\* n <= 2^64 - 1 = 18446744073709551615, for a decimal form n
AtMostU64Max(n) ==
    LET max == <<1, 8, 4, 4, 6, 7, 4, 4, 0, 7, 3, 7, 0, 9, 5, 5, 1, 6, 1, 5>>
        digit == [c \in Digits |-> CHOOSE d \in 0..9 : ToString(d) = c]
    IN  \/ Len(n) < Len(max)
        \/ /\ Len(n) = Len(max)
           /\ \/ \A i \in 1..Len(max) : digit[n[i]] = max[i]
              \/ \E i \in 1..Len(max) :
                    /\ \A j \in 1..(i - 1) : digit[n[j]] = max[j]
                    /\ digit[n[i]] < max[i]

\* n is the decimal form of a value of 0..2^64-1
IsU64(n) ==
    /\ n # <<>>
    /\ \A i \in 1..Len(n) : n[i] \in Digits
    /\ Decimal(n) = n
    /\ AtMostU64Max(n)

RECURSIVE NumbersOf(_)
\* the values of the Number leaves of an expression
NumbersOf(e) ==
    IF e[1] = "Number" THEN {e[2]}
    ELSE IF e[1] = "BinaryOperation" THEN NumbersOf(e[2]) \cup NumbersOf(e[4])
    ELSE IF e[1] = "UnaryOperation" THEN NumbersOf(e[2])
    ELSE {}

C15_DigitRuns ==
    LET items == InputItems IN
    ExprDone
    => \A i \in 1..Len(items) :
          LET s == FirstNotIn(input, IF i = 1 THEN 1 ELSE items[i - 1].end,
                              Whitespace)
          IN  (s <= Len(input) /\ input[s] \in Digits)
              => LET e == FirstNotIn(input, s, Digits)
                     n == Decimal(SubSeq(input, s, e - 1))
                 IN  /\ items[i].ok
                     /\ items[i].end = e
                     /\ items[i].val = IF AtMostU64Max(n) THEN TokNumber(n)
                                       ELSE TokInvalid("0")

C15_ValuesFit ==
    LET items == InputItems IN
    ExprDone
    => /\ \A i \in 1..Len(items) :
            (items[i].ok /\ items[i].val.type = "Number")
            => IsU64(items[i].val.val)
       /\ result.ok => \A n \in NumbersOf(result.val) : IsU64(n)

\* C15: the token of a digit run, and the values of the numbers.
C15_Numbers == C15_DigitRuns /\ C15_ValuesFit

\* 18446744073709551616 = 2^64 has become Invalid('0'), which no expression
\* starts with
C15_Witness ==
    /\ ExprDone
    /\ input = SubSeq(U64Max, 1, 19) \o <<"6">>
    /\ InputTokens = <<TokInvalid("0"), Eof>>
    /\ ~result.ok

---------------------------------------------------------------------------
\* C16: a word that starts with an ASCII letter or an underscore is the
\* maximal run of alphanumeric characters and underscores; it is Keyword(k)
\* exactly when its upper-cased text is one of the 21 spellings, and else
\* the Identifier of the text as written; a digit run directly followed by
\* a word gives the token of the run and then the token of the word.

\* the 21 spellings and their keywords
Spellings ==
    {<<wSELECT, "Select">>, <<wCREATE, "Create">>, <<wTABLE, "Table">>,
     <<wWHERE, "Where">>, <<wORDER, "Order">>, <<wBY, "By">>,
     <<wASC, "Asc">>, <<wDESC, "Desc">>, <<wFROM, "From">>,
     <<wAND, "And">>, <<wOR, "Or">>, <<wNOT, "Not">>, <<wTRUE, "True">>,
     <<wFALSE, "False">>, <<wPRIMARY, "Primary">>, <<wKEY, "Key">>,
     <<wCHECK, "Check">>, <<wINT, "Int">>, <<wBOOL, "Bool">>,
     <<wVARCHAR, "Varchar">>, <<wNULL, "Null">>}

\* the token of a word
WordToken(word) ==
    LET spelled == {sp \in Spellings : sp[1] = to_uppercase(word)} IN
    IF spelled = {} THEN TokIdentifier(word)
    ELSE TokKeyword((CHOOSE sp \in spelled : TRUE)[2])

\* the token of a digit run
NumberToken(run) ==
    IF AtMostU64Max(Decimal(run)) THEN TokNumber(Decimal(run))
    ELSE TokInvalid("0")

AsciiWordStart == LowerLetters \cup UpperLetters \cup {"_"}

\* a call of next() at the start of a word
C16_WordStep ==
    LET s == TokenStart IN
    (Called /\ s <= Len(input) /\ input[s] \in AsciiWordStart)
    => LET e == FirstNotIn(input, s, IdentPart) IN
       /\ IsTok(NewItem, WordToken(SubSeq(input, s, e - 1)))
       /\ tokenizer'.pos = e

\* the input is a digit run directly followed by a word
DigitsThenWord(d) ==
    /\ d \in 1..(Len(input) - 1)
    /\ \A i \in 1..d : input[i] \in Digits
    /\ input[d + 1] \in AsciiWordStart
    /\ \A i \in (d + 1)..Len(input) : input[i] \in IdentPart

\* the claim as it stands: a Number and then an Identifier
C16_NumberThenIdentifier ==
    TokDone
    => \A d \in 1..Len(input) :
          (DigitsThenWord(d) /\ AtMostU64Max(Decimal(SubSeq(input, 1, d))))
          => /\ IsTok(yielded[1], TokNumber(Decimal(SubSeq(input, 1, d))))
             /\ IsTok(yielded[2],
                      TokIdentifier(SubSeq(input, d + 1, Len(input))))
             /\ IsTok(yielded[3], Eof)

\* the token of the run and then the token of the word
C16_RunThenWord ==
    TokDone
    => \A d \in 1..Len(input) :
          DigitsThenWord(d)
          => /\ IsTok(yielded[1], NumberToken(SubSeq(input, 1, d)))
             /\ IsTok(yielded[2], WordToken(SubSeq(input, d + 1, Len(input))))
             /\ IsTok(yielded[3], Eof)

\* C16: the token of a word wherever one starts, and the two tokens of a
\* digit run with a word behind it.
C16_Words == [][C16_WordStep]_vars /\ []C16_RunThenWord

\* `12by` has yielded Number(12) and Keyword(By)
C16_Witness ==
    /\ input = <<"1", "2", "b", "y">>
    /\ Len(yielded) = 3
    /\ IsTok(yielded[1], TokNumber(<<"1", "2">>))
    /\ IsTok(yielded[2], TokKeyword("By"))
    /\ IsTok(yielded[3], Eof)

---------------------------------------------------------------------------
\* C17: `>=`, `<=` and `!=` are recognised only when `=` follows at once;
\* otherwise `>` is GreaterThan, `<` is LessThan and `!` is Invalid('!'),
\* and the first character alone is consumed.

\* the token of the character with `=` right behind it, and without
WithEqual(c) ==
    CASE c = ">" -> Tok("GreaterThanOrEqual")
      [] c = "<" -> Tok("LessThanOrEqual")
      [] c = "!" -> Tok("NotEqual")
Alone(c) ==
    CASE c = ">" -> Tok("GreaterThan")
      [] c = "<" -> Tok("LessThan")
      [] c = "!" -> TokInvalid("!")

EqualFollows(s) == s + 1 <= Len(input) /\ input[s + 1] = "="

C17_OperatorStep ==
    LET s == TokenStart IN
    Called
    => /\ (s <= Len(input) /\ input[s] \in {">", "<", "!"})
          => IF EqualFollows(s)
             THEN IsTok(NewItem, WithEqual(input[s])) /\ tokenizer'.pos = s + 2
             ELSE IsTok(NewItem, Alone(input[s])) /\ tokenizer'.pos = s + 1
       /\ \A c \in {">", "<", "!"} :
             IsTok(NewItem, WithEqual(c))
             => s <= Len(input) /\ input[s] = c /\ EqualFollows(s)

\* C17: the token at `>`, `<` and `!`, with and without `=` behind it.
C17_TwoCharOperators == [][C17_OperatorStep]_vars

\* `!=!` has yielded NotEqual and Invalid('!')
C17_Witness ==
    /\ input = <<"!", "=", "!">>
    /\ Len(yielded) = 3
    /\ IsTok(yielded[1], Tok("NotEqual"))
    /\ IsTok(yielded[2], TokInvalid("!"))
    /\ IsTok(yielded[3], Eof)

---------------------------------------------------------------------------
\* C18: an error ends the parse of the statement at once: the error of the
\* tokenizer or of the grammar is the result as it is, no Statement is
\* returned, no token is consumed after the failing one and no other rule
\* is tried; a failure in a late clause rejects the statement whose earlier
\* clauses have parsed.

\* the number of the items that the parser has taken from its tokenizer
TakenOf(items, p) ==
    IF p.tokenizer.reached_end THEN Len(items)
    ELSE Cardinality({k \in 1..(Len(items) - 1) :
                         items[k].end <= p.tokenizer.pos})

Taken(p) == TakenOf(InputItems, p)

\* a failure is the error of the last item taken, or a grammar error at the
\* last token taken, which is the parser's current token
C18_FailsAtLastTaken ==
    LET items == InputItems
        k == Taken(parser)
    IN  (StmtDone /\ ~result.ok)
        => /\ k >= 1
           /\ \A m \in 1..(k - 1) : items[m].ok
           /\ IF ~items[k].ok THEN result.val = items[k].val
              ELSE /\ parser.current_token = items[k].val
                   /\ Len(result.val) \in {1, 2}
                   /\ Len(result.val) = 2 => result.val[2] = items[k].val

\* a returned Statement has taken no error of the tokenizer
C18_NoErrorPassed ==
    LET items == InputItems IN
    (StmtDone /\ result.ok)
    => \A m \in 1..Taken(parser) : items[m].ok

\* the tokens 1..j, then a semicolon, are a statement of their own, and the
\* input goes on after them with something else than the semicolon
EarlierClauses(t, j) ==
    /\ \A k \in 1..(j + 1) : t[k] # Tok("Semicolon")
    /\ \A k \in 1..j : t[k].type # "Error"
    /\ ParseStatementText(TokenText(1, j) \o <<";">>).ok

\* the statement of the earlier clauses alone is not what is returned
C18_NoPartialStatement ==
    LET t == InputTokens IN
    (StmtDone /\ result.ok)
    => \A j \in 1..(Len(t) - 1) :
          EarlierClauses(t, j)
          => ~Returns(ParseStatementText(TokenText(1, j) \o <<";">>).val)

\* C18: an error is the result as it is, at the token where it arose, and
\* never a Statement of the clauses before it.
C18_ErrorAborts ==
    C18_FailsAtLastTaken /\ C18_NoErrorPassed /\ C18_NoPartialStatement

\* `SELECT id FROM users ORDER BY;` has failed at the semicolon, though
\* `SELECT id FROM users;` is a statement
C18_Witness ==
    LET t == InputTokens IN
    /\ StmtDone
    /\ t = <<TokKeyword("Select"), TokIdentifier(wId), TokKeyword("From"),
             TokIdentifier(wUsers), TokKeyword("Order"), TokKeyword("By"),
             Tok("Semicolon"), Eof>>
    /\ EarlierClauses(t, 4)
    /\ Fails(<<"Unexpected token in prefix position: ", Tok("Semicolon")>>)
    /\ Taken(parser) = 7

---------------------------------------------------------------------------
\* C19: build_statement returns Ok(Statement) or Err(message) on every
\* input: each call of parse_expression and each turn of the infix loop, of
\* the comma loops and of the constraint loop consumes a token at least, so
\* the steps of the parser are bounded by the number of tokens.

\* the parser as it stands with the token k of the input as its current one
ParserAt(items, k) ==
    [tokenizer |-> [input |-> input, pos |-> items[k].end,
                    reached_end |-> items[k].val = Eof],
     current_token |-> items[k].val]

\* the indices of the tokens that the parser can stand at
Standpoints(items) == {k \in 1..Len(items) : \A m \in 1..k : items[m].ok}

RECURSIVE Nodes(_)
\* the number of nodes of an expression: one for each call of parse_prefix
\* and of parse_infix that has built it
Nodes(e) ==
    IF e[1] = "BinaryOperation" THEN 1 + Nodes(e[2]) + Nodes(e[4])
    ELSE IF e[1] = "UnaryOperation" THEN 1 + Nodes(e[2])
    ELSE 1

\* the step from the token k on has failed, or consumed n tokens at least
Consumes(items, k, r, n) == r.ok => TakenOf(items, r.st) - k >= n

\* a call of parse_expression that returns an expression has consumed a
\* token for each of its nodes
ExpressionConsumes(items, k, r) ==
    r.ok => Consumes(items, k, r, Nodes(r.val))

\* a loop has consumed a token for each element it has pushed
LoopConsumes(items, k, r) == r.ok => Consumes(items, k, r, Len(r.val))

C19_ExpressionConsumes ==
    LET items == InputItems IN
    StmtDone
    => \A k \in Standpoints(items) :
          /\ ExpressionConsumes(items, k, parse_expression(ParserAt(items, k), 0))
          /\ ExpressionConsumes(items, k, parse_expression(ParserAt(items, k), 7))

\* a turn of the infix loop has consumed a token
C19_InfixConsumes ==
    LET items == InputItems IN
    StmtDone
    => \A k \in Standpoints(items) :
          Consumes(items, k,
                   parse_infix(ParserAt(items, k), ExprIdentifier(<<"a">>)), 1)

\* the comma loops and the constraint loop
C19_LoopsConsume ==
    LET items == InputItems IN
    StmtDone
    => \A k \in Standpoints(items) :
          /\ LoopConsumes(items, k, expression_list(ParserAt(items, k), <<>>))
          /\ LoopConsumes(items, k, column_list_loop(ParserAt(items, k), <<>>))
          /\ LoopConsumes(items, k, constraint_loop(ParserAt(items, k), <<>>))

\* what build_statement returns is a Statement or a message
C19_OkOrErr ==
    StmtDone
    => IF result.ok THEN result.val.kind \in {"Select", "CreateTable"}
       ELSE result # NoResult /\ Len(result.val) >= 1

\* C19: build_statement returns, with Ok or Err, and its steps consume.
C19_Terminates ==
    /\ <>(pc = "done")
    /\ [](C19_OkOrErr /\ C19_ExpressionConsumes /\ C19_InfixConsumes
            /\ C19_LoopsConsume)

\* the CREATE TABLE of employees has been parsed: its columns, its
\* constraints and the expression of its CHECK
C19_Witness ==
    /\ StmtDone
    /\ result.ok
    /\ result.val.kind = "CreateTable"
    /\ Len(result.val.column_list) = 2
    /\ \E k \in Standpoints(InputItems) :
          LET r == parse_expression(ParserAt(InputItems, k), 0) IN
          r.ok /\ Nodes(r.val) = 3 /\ Taken(r.st) - k = 3

\* C20: where an expression is required and the current token is no prefix
\* form, parse_expression fails and names that token; a failure in an
\* operand is the failure of the enclosing parse.

\* the tokens that have an arm of their own in parse_prefix
IsPrefixForm(t) ==
    \/ IsOperand(t)
    \/ t \in {TokKeyword("Not"), Tok("Plus"), Tok("Minus"),
              Tok("LeftParentheses")}

PrefixPosition(t) == <<"Unexpected token in prefix position: ", t>>

\* the tokens of an expression after which an operand is required
OperandFollows ==
    {Tok("Plus"), Tok("Minus"), Tok("Star"), Tok("Divide"), Tok("Equal"),
     Tok("NotEqual"), Tok("GreaterThan"), Tok("GreaterThanOrEqual"),
     Tok("LessThan"), Tok("LessThanOrEqual"), TokKeyword("And"),
     TokKeyword("Or"), TokKeyword("Not"), Tok("LeftParentheses")}

\* the token k of a statement is where an expression is required: after
\* SELECT, WHERE, BY and the commas of SELECT, after CHECK and its '(', and
\* after a binary operator that is not the '*' of SELECT *
ExpressionRequired(t, k) ==
    IF k = 1 THEN FALSE
    ELSE \/ t[k - 1] \in {TokKeyword("Where"), TokKeyword("By")}
         \/ t[1] = TokKeyword("Select") /\ t[k - 1] = Tok("Comma")
         \/ k = 2 /\ t[1] = TokKeyword("Select") /\ t[2] # Tok("Star")
         \/ k > 2 /\ t[k - 2] = TokKeyword("Check")
               /\ t[k - 1] = Tok("LeftParentheses")
         \/ Rank(t[k - 1]) > 0
               /\ ~(k = 3 /\ t[1] = TokKeyword("Select"))

\* at a token that is no prefix form parse_expression fails, whatever the
\* minimum precedence, names the token and leaves it the current token
C20_NamesToken ==
    LET items == InputItems IN
    pc = "done"
    => \A k \in Standpoints(items) :
          ~IsPrefixForm(items[k].val)
          => \A precedence \in 0..6 :
                LET p == ParserAt(items, k)
                    r == parse_expression(p, precedence)
                IN  ~r.ok /\ r.val = PrefixPosition(items[k].val) /\ r.st = p

\* the failure of the operand of a prefix operator, of the sub-expression
\* of a group and of the right-hand operand of a binary operator is what
\* parse_prefix and parse_infix return
C20_OperandFailure ==
    LET items == InputItems IN
    pc = "done"
    => \A k \in Standpoints(items) :
          (k < Len(items) /\ items[k + 1].ok)
          => LET t == items[k].val
                 p == ParserAt(items, k)
                 q == ParserAt(items, k + 1)
             IN  /\ Rank(t) > 0
                    => LET right == parse_expression(q, Rank(t)) IN
                       ~right.ok
                       => parse_infix(p, ExprIdentifier(<<"a">>)) = right
                 /\ t \in {TokKeyword("Not"), Tok("Plus"), Tok("Minus")}
                    => LET operand == parse_expression(q, 6) IN
                       ~operand.ok => parse_prefix(p) = operand
                 /\ t = Tok("LeftParentheses")
                    => LET expr == parse_expression(q, 0) IN
                       ~expr.ok => parse_prefix(p) = expr

\* the expression that stops at a token that is no prefix form, at its
\* start or after an operator, fails with the name of that token
C20_ExpressionFails ==
    LET items == InputItems
        k == TakenOf(items, parser)
    IN  (ExprDone /\ k \in Standpoints(items)
           /\ ~IsPrefixForm(items[k].val)
           /\ (k = 1 \/ (~result.ok /\ items[k - 1].val \in OperandFollows)))
        => Fails(PrefixPosition(items[k].val))

\* the statement that stops where an expression is required, at a token
\* that is no prefix form, fails with the name of that token
C20_StatementFails ==
    LET items == InputItems
        k == TakenOf(items, parser)
    IN  (StmtDone /\ ~result.ok /\ k \in Standpoints(items)
           /\ ~IsPrefixForm(items[k].val)
           /\ ExpressionRequired([i \in 1..k |-> items[i].val], k))
        => Fails(PrefixPosition(items[k].val))

\* `5 +` fails at the end-marker, and SELECT id FROM users ORDER BY; at
\* the terminator
C20_Examples ==
    LET t == InputTokens IN
    /\ (ExprDone /\ t = <<TokNumber(<<"5">>), Tok("Plus"), Eof>>)
       => Fails(PrefixPosition(Eof))
    /\ (StmtDone
          /\ t = <<TokKeyword("Select"), TokIdentifier(<<"i", "d">>),
                   TokKeyword("From"),
                   TokIdentifier(<<"u", "s", "e", "r", "s">>),
                   TokKeyword("Order"), TokKeyword("By"),
                   Tok("Semicolon"), Eof>>)
       => Fails(PrefixPosition(Tok("Semicolon")))

\* a failure in prefix position names the parser's current token, which is
\* no prefix form
C20_NamedIsCurrent ==
    (pc = "done" /\ ~result.ok /\ Len(result.val) = 2
       /\ result.val[1] = "Unexpected token in prefix position: ")
    => /\ result.val[2] = parser.current_token
       /\ ~IsPrefixForm(parser.current_token)

\* C20: a token that is no prefix form, where an expression is required,
\* fails the parse with its name; the failure of an operand is returned as
\* it is.
C20_PrefixPosition ==
    /\ C20_NamesToken
    /\ C20_OperandFailure
    /\ C20_ExpressionFails
    /\ C20_StatementFails
    /\ C20_Examples
    /\ C20_NamedIsCurrent

\* the right-hand operand of '+' has failed at the placeholder of a number
\* that overflows, in the ORDER BY of a SELECT whose WHERE has parsed
C20_Witness ==
    /\ StmtDone
    /\ Fails(PrefixPosition(TokInvalid("0")))
    /\ LET items == InputItems
           k == TakenOf(items, parser)
       IN  /\ k > 2
           /\ items[k - 1].val = Tok("Plus")
           /\ items[k - 2].val = TokIdentifier(<<"a", "g", "e">>)
           /\ \E j \in 1..k : items[j].val = TokKeyword("By")

\* C21: after '(' and its sub-expression the current token must be ')';
\* any other token fails the parse with `Expected closing parenthesis`.

ExpectedClosing == <<"Expected closing parenthesis">>

\* at every '(' whose sub-expression parses, parse_expression takes the
\* ')' that follows it, and fails where another token follows it
C21_EveryGroup ==
    LET items == InputItems IN
    pc = "done"
    => \A k \in Standpoints(items) :
          (items[k].val = Tok("LeftParentheses") /\ items[k + 1].ok)
          => LET expr == parse_expression(ParserAt(items, k + 1), 0)
                 r == parse_prefix(ParserAt(items, k))
             IN  expr.ok
                 => IF expr.st.current_token = Tok("RightParentheses")
                    THEN LET a == advance_token(expr.st) IN
                         IF a.ok THEN r = Ok(expr.val, a.st) ELSE r = a
                    ELSE /\ r = Err(ExpectedClosing, expr.st)
                         /\ \A precedence \in 0..6 :
                               parse_expression(ParserAt(items, k),
                                                precedence) = r

\* a parse that fails with this message stands behind a '(' at a token
\* that is not ')'
C21_FailsAtOther ==
    LET items == InputItems
        k == TakenOf(items, parser)
    IN  (pc = "done" /\ Fails(ExpectedClosing))
        => /\ k \in Standpoints(items)
           /\ parser.current_token = items[k].val
           /\ items[k].val # Tok("RightParentheses")
           /\ \E j \in 1..(k - 1) : items[j].val = Tok("LeftParentheses")

\* `(5 + 3` fails at the end-marker
C21_Example ==
    (ExprDone /\ InputTokens = <<Tok("LeftParentheses"), TokNumber(<<"5">>),
                                  Tok("Plus"), TokNumber(<<"3">>), Eof>>)
    => Fails(ExpectedClosing)

\* C21: a '(' whose sub-expression is not followed by ')' fails the parse
\* with `Expected closing parenthesis`, at every depth.
C21_ClosingParenthesis == C21_EveryGroup /\ C21_FailsAtOther /\ C21_Example

\* `((5 + 3)`: the inner group has closed and the outer one fails at the
\* end-marker
C21_Witness ==
    /\ ExprDone
    /\ Fails(ExpectedClosing)
    /\ parser.current_token = Eof
    /\ LET t == InputTokens IN
       /\ Len(t) = 7
       /\ t[1] = Tok("LeftParentheses")
       /\ t[2] = Tok("LeftParentheses")
       /\ t[6] = Tok("RightParentheses")

\* C22: parse_statement looks at the first token only: SELECT and CREATE
\* choose the grammar, CREATE wants TABLE next, and any other first token
\* fails with no token consumed.

ExpectedSelectOrCreate(t) == <<"Expected SELECT or CREATE, got ", t>>
ExpectedTable == <<"Expected TABLE after CREATE">>

\* the messages that parse_statement and the head of CREATE TABLE return
DispatchErrors(t) == {ExpectedSelectOrCreate(t), ExpectedTable}

\* a first token that is neither SELECT nor CREATE fails the statement,
\* and the parser is as Parser::new has left it
C22_OtherFirst ==
    LET items == InputItems IN
    (StmtDone /\ items[1].ok
       /\ items[1].val \notin {TokKeyword("Select"), TokKeyword("Create")})
    => /\ Fails(ExpectedSelectOrCreate(items[1].val))
       /\ parser = ParserAt(items, 1)

\* SELECT first: a SELECT or an error of the SELECT grammar
C22_SelectFirst ==
    LET items == InputItems IN
    (StmtDone /\ items[1].ok /\ items[1].val = TokKeyword("Select"))
    => /\ result.ok => result.val.kind = "Select"
       /\ ~result.ok => result.val \notin DispatchErrors(items[1].val)
       /\ result = Returned(parse_select_statement(ParserAt(items, 1)))

\* CREATE first: TABLE must be next; then a CREATE TABLE or an error of
\* its grammar
C22_CreateFirst ==
    LET items == InputItems
        k == TakenOf(items, parser)
    IN  (StmtDone /\ items[1].ok /\ items[1].val = TokKeyword("Create"))
        => /\ result.ok
              => result.val.kind = "CreateTable"
                    /\ items[2].val = TokKeyword("Table")
           /\ (items[2].ok /\ items[2].val # TokKeyword("Table"))
              => Fails(ExpectedTable) /\ parser = ParserAt(items, 2)
           /\ Fails(ExpectedTable)
              => k = 2 /\ items[2].ok /\ items[2].val # TokKeyword("Table")
           /\ ~Fails(ExpectedSelectOrCreate(items[1].val))

C22_Dispatch == C22_OtherFirst /\ C22_SelectFirst /\ C22_CreateFirst

\* TABLE users ( id INT ) ; has failed at its first token, a keyword that
\* begins no statement
C22_Witness ==
    /\ StmtDone
    /\ Fails(ExpectedSelectOrCreate(TokKeyword("Table")))
    /\ parser.current_token = TokKeyword("Table")
    /\ Len(InputItems) = 8

\* C24: the value of a String token is the text between its opening quote
\* and the next occurrence of that quote, character for character.

\* the call has returned a String token
StringItem == NewItem.some /\ NewItem.ok /\ NewItem.val.type = "String"

\* the String that a call returns is the text behind the quote at the
\* start of the token, up to the same quote, and holds no quote
C24_ValueStep ==
    LET s == TokenStart IN
    (Called /\ StringItem)
    => LET v == NewItem.val.val
           n == Len(v)
       IN  /\ s + n + 1 <= Len(input)
           /\ input[s] \in Quotes
           /\ input[s + n + 1] = input[s]
           /\ \A i \in 1..n : v[i] = input[s + i] /\ v[i] \notin Quotes
           /\ tokenizer.pos <= s
           /\ tokenizer'.pos = s + n + 2

\* a quote that the same quote follows, with no quote between, opens a
\* String of all the characters between, a backslash being one of them
C24_LiteralStep ==
    LET s == TokenStart IN
    (Called /\ s <= Len(input) /\ input[s] \in Quotes)
    => \A k \in (s + 1)..Len(input) :
          (input[k] = input[s]
             /\ \A i \in (s + 1)..(k - 1) : input[i] \notin Quotes)
          => /\ StringItem
             /\ Len(NewItem.val.val) = k - s - 1
             /\ \A i \in (s + 1)..(k - 1) :
                   NewItem.val.val[i - s] = input[i]

\* C24: a String token's value is the characters between its quotes,
\* unchanged, and holds no quote character.
C24_StringValue == [][C24_ValueStep /\ C24_LiteralStep]_vars

\* 'SELECT >= 1' has yielded one String, with the keyword, the operator and
\* the blanks in it, and the Eof
C24_Witness ==
    /\ harness = "tokens"
    /\ Len(yielded) = 2
    /\ IsTok(yielded[1],
             TokString(<<"S", "E", "L", "E", "C", "T", " ", ">", "=", " ",
                         "1">>))
    /\ IsTok(yielded[2], Eof)

\* C25: a call of next_token with a character other than whitespace still
\* unread consumes at least one character, whatever it returns.

\* the call is an error of mismatched quotes
MismatchItem ==
    /\ NewItem.some /\ ~NewItem.ok
    /\ NewItem.val[1] = "Mismatched quotes: string started with "

\* the call consumes the character at the start of the token, so that the
\* unread text gets shorter, and it ends inside the text or right behind it
C25_ConsumesStep ==
    LET s == TokenStart IN
    (Called /\ s <= Len(input))
    => /\ NewItem.some
       /\ tokenizer'.pos > s
       /\ tokenizer'.pos > tokenizer.pos
       /\ tokenizer'.pos <= Len(input) + 1
       /\ ~IsTok(NewItem, Eof)

\* after an error of mismatched quotes the cursor is right behind the quote
\* that the error names
C25_PastQuoteStep ==
    (Called /\ MismatchItem)
    => LET s == TokenStart
           k == tokenizer'.pos - 1
       IN  /\ s < k
           /\ input[k] = NewItem.val[4]
           /\ input[s] = NewItem.val[2]
           /\ input[k] \in Quotes /\ input[k] # input[s]
           /\ \A i \in (s + 1)..(k - 1) : input[i] \notin Quotes

\* C25: scanning never stalls, and it passes the quote of a mismatch.
C25_NeverStalls == [][C25_ConsumesStep /\ C25_PastQuoteStep]_vars

\* 'a"a has yielded the error of mismatched quotes, then the identifier
\* behind the offending quote, then the Eof
C25_Witness ==
    /\ harness = "tokens"
    /\ input = <<"'", "a", "\"", "a">>
    /\ Len(yielded) = 3
    /\ IsErr(yielded[1], MismatchedQuotes("'", "\""))
    /\ IsTok(yielded[2], TokIdentifier(<<"a">>))
    /\ IsTok(yielded[3], Eof)

\* C26: build_statement returns Ok only when the end-marker is the token
\* behind the terminating semicolon, the whole input being the statement.
C26_WholeInput ==
    LET items == InputItems
        k == TakenOf(items, parser)
    IN  (StmtDone /\ result.ok)
        => /\ k = Len(items)
           /\ parser.current_token = Eof
           /\ k > 1 /\ items[k - 1].val = Tok("Semicolon")

\* C27: the parser holds one token of lookahead, read when the token before
\* it is consumed; a lexical error is returned at that moment, and text
\* behind the lookahead of a returned statement is not read.

\* Parser::new returns the lexical error of the first token
C27_FirstToken ==
    LET items == InputItems IN
    (pc = "done" /\ ~items[1].ok)
    => Fails(items[1].val)

\* advance_token at token k makes token k + 1 the current one, or returns
\* its lexical error and leaves token k the current one
C27_AdvanceReadsNext ==
    LET items == InputItems IN
    pc = "done"
    => \A k \in Standpoints(items) :
          k < Len(items)
          => LET a == advance_token(ParserAt(items, k)) IN
             IF items[k + 1].ok
             THEN a = Ok(<<>>, ParserAt(items, k + 1))
             ELSE /\ ~a.ok /\ a.val = items[k + 1].val
                  /\ a.st.current_token = items[k].val
                  /\ a.st.tokenizer.pos = items[k + 1].end

\* a parse that has consumed the token before a lexical error has failed
\* with that error
C27_ErrorWhenConsumed ==
    LET items == InputItems
        k == TakenOf(items, parser)
    IN  (StmtDone /\ ~items[k].ok)
        => /\ Fails(items[k].val)
           /\ \A m \in 1..(k - 1) : items[m].ok
           /\ k > 1 => parser.current_token = items[k - 1].val

\* the index of the first semicolon, 0 if there is none before an error
FirstSemicolon(items) ==
    LET ms == {m \in Standpoints(items) : items[m].val = Tok("Semicolon")}
    IN  IF ms = {} THEN 0 ELSE CHOOSE m \in ms : \A n \in ms : m <= n

\* where the text through its first semicolon is a statement: a lexical
\* error right behind the semicolon is the result; else the statement is,
\* and nothing behind the token after the semicolon has been read
C27_BehindSemicolon ==
    LET items == InputItems
        m == FirstSemicolon(items)
    IN  (StmtDone /\ m > 0)
        => LET alone == ParseStatementText(SubSeq(input, 1,
                                                  items[m].end - 1))
           IN  alone.ok
               => IF ~items[m + 1].ok THEN Fails(items[m + 1].val)
                  ELSE /\ Returns(alone.val)
                       /\ parser = ParserAt(items, m + 1)

\* C27: one token of lookahead, read eagerly.
C27_Lookahead ==
    /\ C27_FirstToken
    /\ C27_AdvanceReadsNext
    /\ C27_ErrorWhenConsumed
    /\ C27_BehindSemicolon

\* SELECT id FROM users ; 's" has failed with the error of the malformed
\* string behind the semicolon of a statement that is complete
C27_Witness ==
    LET items == InputItems IN
    /\ StmtDone
    /\ Len(items) >= 6
    /\ items[5].ok /\ items[5].val = Tok("Semicolon")
    /\ ~items[6].ok
    /\ Fails(MismatchedQuotes("'", "\""))
    /\ parser.current_token = Tok("Semicolon")
    /\ ParseStatementText(SubSeq(input, 1, items[5].end - 1)).ok

\* C28: the parser's current token is never None: no rule consumes the
\* end-marker, and the errors of a missing token are never returned.

\* the messages of the branches for a current token that is None
EndOfInputErrors ==
    {<<"Unexpected end of input">>, <<"Empty input">>,
     <<"Unexpected end of input in column definition">>,
     <<"Unexpected end of input in type definition">>}

\* the parser that Parser::new has built, and the parser that a parse has
\* left, hold a token; at the end-marker the tokenizer has not been asked on
C28_TokenPresent ==
    (pc = "ready" \/ (pc = "done" /\ InputItems[1].ok))
    => /\ parser.current_token # NoToken
       /\ parser.tokenizer.reached_end <=> parser.current_token = Eof

C28_NeverReturned ==
    (pc = "done" /\ ~result.ok) => result.val \notin EndOfInputErrors

\* a rule leaves a token, and at the end-marker it leaves the end-marker
RuleKeeps(items, k, r) ==
    /\ r.st.current_token # NoToken
    /\ ~r.ok => r.val \notin EndOfInputErrors
    /\ k = Len(items) => ~r.ok /\ r.st = ParserAt(items, k)

\* no rule, started at any token, moves past the end-marker
C28_RulesKeepEof ==
    LET items == InputItems IN
    pc = "done"
    => \A k \in Standpoints(items) :
          LET p == ParserAt(items, k) IN
          /\ RuleKeeps(items, k, parse_expression(p, 0))
          /\ RuleKeeps(items, k, parse_statement(p))
          /\ RuleKeeps(items, k, parse_column_definition(p))
          /\ RuleKeeps(items, k, parse_db_type(p))
          /\ RuleKeeps(items, k, parse_infix(p, ExprIdentifier(<<"a">>)))

\* the input without a token fails at the end-marker
C28_EmptyInput ==
    LET items == InputItems IN
    (StmtDone /\ Len(items) = 1)
    => Fails(<<"Expected SELECT or CREATE, got ", Eof>>)
          /\ parser = ParserAt(items, 1)

\* C28: the current token is always present.
C28_CurrentToken ==
    /\ C28_TokenPresent
    /\ C28_NeverReturned
    /\ C28_RulesKeepEof
    /\ C28_EmptyInput

\* the empty input has failed at its end-marker, which is still the
\* current token
C28_Witness ==
    /\ StmtDone
    /\ input = <<>>
    /\ Fails(<<"Expected SELECT or CREATE, got ", Eof>>)
    /\ parser.current_token = Eof
    /\ parser.tokenizer.reached_end

\* C29: in a returned Statement, an Asc or Desc node is the root of an
\* ORDER BY item and nothing else.

IsAscDesc(e) == e[1] = "UnaryOperation" /\ e[3] \in {"Asc", "Desc"}

RECURSIVE HasAscDesc(_)
\* an Asc or Desc node occurs in the expression
HasAscDesc(e) ==
    CASE e[1] = "UnaryOperation" -> IsAscDesc(e) \/ HasAscDesc(e[2])
      [] e[1] = "BinaryOperation" -> HasAscDesc(e[2]) \/ HasAscDesc(e[4])
      [] OTHER -> FALSE

\* an Asc or Desc node occurs below the root of the expression
AscDescBelowRoot(e) ==
    CASE e[1] = "UnaryOperation" -> HasAscDesc(e[2])
      [] e[1] = "BinaryOperation" -> HasAscDesc(e[2]) \/ HasAscDesc(e[4])
      [] OTHER -> FALSE

\* the expressions of the CHECK constraints of a column
ChecksOf(col) ==
    {col.constraints[i][2] :
        i \in {j \in 1..Len(col.constraints) :
                  col.constraints[j][1] = "Check"}}

C29_OnlyOrderByRoots ==
    /\ SelectDone
       => /\ \A i \in 1..Len(result.val.columns) :
                ~HasAscDesc(result.val.columns[i])
          /\ result.val.where # None => ~HasAscDesc(result.val.where[2])
          /\ \A i \in 1..Len(result.val.orderby) :
                ~AscDescBelowRoot(result.val.orderby[i])
    /\ CreateDone
       => \A i \in 1..Len(result.val.column_list) :
             \A e \in ChecksOf(result.val.column_list[i]) : ~HasAscDesc(e)

\* C30: for each punctuation and operator token, tokenizing the text that
\* Display writes for it yields that token and then the end-marker.
C30_RoundTrip ==
    \A t \in FixedTokens :
       (harness = "tokens" /\ pc = "iterating" /\ input = Token_fmt(t)
          /\ Len(yielded) >= 2)
       => IsTok(yielded[1], t) /\ IsTok(yielded[2], Eof)

=============================================================================
